---- MODULE Spec2Model ----
(***************************************************************************)
(* Layout-and-interaction engine of the knowledge-graph canvas:            *)
(*   - the interaction controller (hooks/useCanvasInteraction.ts),         *)
(*   - the host's position update (hooks/useKnowledgeGraph.ts),            *)
(*   - the render loop (components/GraphCanvas.tsx),                       *)
(*   - the physics engine (GraphSimulation),                               *)
(*   - the renderer (GraphRenderer),                                       *)
(*   - the client of the language-model provider (utils/api.ts) and the    *)
(*     hook that configures it (hooks/useAPIConfig.ts).                    *)
(*                                                                         *)
(* Numbers.  JavaScript numbers are modelled as fixed-point integers:      *)
(*   a world-space coordinate w is held as w*Q, a velocity v as v*VQ, a    *)
(*   zoom factor z as z*ZS, the simulation energy alpha as alpha*AQ and a  *)
(*   connection strength s as s*SQ.  Pointer and surface coordinates are   *)
(*   whole pixels.  A product or quotient is rounded to the nearest unit   *)
(*   where the floating-point operation rounds to the nearest double.      *)
(*                                                                         *)
(* React.  canvasState is the state React holds (every functional updater  *)
(*   applied); rendered is the value of canvasState the callbacks of the   *)
(*   last render closed over.  Updates made in discrete events (mousedown, *)
(*   mouseup, click, resize) are rendered before the next event; updates   *)
(*   made in continuous events (mousemove, mouseleave, wheel) are rendered *)
(*   by a later task, so further events may be handled before it.          *)
(***************************************************************************)
EXTENDS Integers, Sequences, FiniteSets, TLC

VARIABLES
    canvasState,    \* useCanvasInteraction: the state held by React
    rendered,       \* useCanvasInteraction: canvasState as of the last render
    hoveredNode,    \* useCanvasInteraction: hovered node id or Null
    nodes,          \* useKnowledgeGraph: graph.nodes held by React
    renderedNodes,  \* GraphCanvas: the nodes prop of the last render
    selectedNode,   \* useKnowledgeGraph: id of the selected node or Null
    calls,          \* callbacks invoked by the last handler, in order
    ev,             \* the last input event and what its handler observed
    panRun,         \* bookkeeping of the current pan gesture
    pending,        \* continuous events handled since the last render
    events,         \* input events handled so far
    alpha,          \* GraphSimulation.alpha
    connections,    \* graph.connections
    ticks,          \* simulate calls so far
    simCall,        \* the draggedNodeId of the last simulate call
    rafCallbacks,   \* requestAnimationFrame callbacks waiting for the next refresh
    nextRafId,      \* the handle the next requestAnimationFrame returns
    effect,         \* the animation effect now mounted: its loop and animationId
    tornDown,       \* the loops whose effect cleanup has run
    frameLog,       \* what the last display refresh called, in order
    frames,         \* display refreshes so far
    filterStrength, \* useKnowledgeGraph: the connection filter threshold
    searchQuery,    \* useKnowledgeGraph: the search string
    isDark,         \* GraphRenderer.isDark
    apiEnv,         \* import.meta.env and the configuration saved in storage
    apiClient,      \* the fields of the APIClient singleton
    apiHook         \* useAPIConfig: its state and what its effects have done

ctlVars == <<canvasState, rendered, hoveredNode, renderedNodes,
             selectedNode, calls, ev, panRun, pending, events>>
simVars == <<alpha, connections, ticks, simCall>>
loopVars == <<rafCallbacks, nextRafId, effect, tornDown, frameLog, frames>>
hostVars == <<filterStrength, searchQuery, isDark, apiEnv, apiClient, apiHook>>

vars == <<canvasState, rendered, hoveredNode, nodes, renderedNodes,
          selectedNode, calls, ev, panRun, pending, events,
          alpha, connections, ticks, simCall,
          rafCallbacks, nextRafId, effect, tornDown, frameLog, frames,
          filterStrength, searchQuery, isDark, apiEnv, apiClient, apiHook>>

Null == "null"

----------------------------------------------------------------------------
(* Units and arithmetic *)

Q == 1000
VQ == 100000
AQ == 10000
SQ == 100
ZS == 20

Abs(n) == IF n < 0 THEN -n ELSE n
Max(a, b) == IF a >= b THEN a ELSE b
Min(a, b) == IF a <= b THEN a ELSE b

\* a / b rounded to the nearest integer, halves away from zero (b > 0)
RoundDiv(a, b) ==
    IF a >= 0 THEN (2 * a + b) \div (2 * b) ELSE -((2 * (-a) + b) \div (2 * b))

\* <<q, r>> with a * b = q * c + r and 0 <= r < c, for a, b >= 0 and c > 0,
\* computed without forming the product a * b
RECURSIVE MulDivMod(_, _, _)
MulDivMod(a, b, c) ==
    IF b = 0 THEN <<0, 0>>
    ELSE IF a <= 2147483647 \div b THEN <<(a * b) \div c, (a * b) % c>>
    ELSE LET h == MulDivMod(a, b \div 2, c)
             q2 == 2 * h[1] + ((2 * h[2]) \div c)
             r2 == (2 * h[2]) % c
         IN  IF b % 2 = 0 THEN <<q2, r2>>
             ELSE <<q2 + (a \div c) + ((r2 + (a % c)) \div c), (r2 + (a % c)) % c>>

\* a * b / c rounded to the nearest integer (c > 0)
MulDiv(a, b, c) ==
    LET m == MulDivMod(Max(Abs(a), Abs(b)), Min(Abs(a), Abs(b)), c)
        q == IF 2 * m[2] >= c THEN m[1] + 1 ELSE m[1]
    IN  IF (a < 0) = (b < 0) THEN q ELSE -q

RECURSIVE SqrtBetween(_, _, _)
SqrtBetween(n, lo, hi) ==
    IF lo >= hi THEN lo
    ELSE LET mid == (lo + hi + 1) \div 2
         IN  IF mid * mid <= n THEN SqrtBetween(n, mid, hi)
             ELSE SqrtBetween(n, lo, mid - 1)

\* Math.sqrt(n) rounded to the nearest integer
Sqrt(n) ==
    LET r == SqrtBetween(n, 0, Min(n, 46340))
    IN  IF n - r * r > r THEN r + 1 ELSE r

\* Math.sqrt(dx * dx + dy * dy); large components are scaled down by powers
\* of ten before they are squared, as a floating-point square keeps its
\* leading digits
RECURSIVE HypotScaled(_, _, _)
HypotScaled(dx, dy, s) ==
    IF Max(Abs(dx), Abs(dy)) <= 30000 THEN s * Sqrt(dx * dx + dy * dy)
    ELSE HypotScaled(dx \div 10, dy \div 10, 10 * s)

Hypot(dx, dy) == HypotScaled(Abs(dx), Abs(dy), 1)

----------------------------------------------------------------------------
(* Bounds of the exploration and the environment's inputs *)

MaxEvents == 5
MaxZoomEvents == 2
MaxTicks == 3
MaxSimUpdates == 1
MaxPending == 2
MaxFrames == 3
MaxEffects == 3
MaxDecayTicks == 400
MinSeparation == Q \div 2
MaxCoord == 100000 * Q
MaxSpeed == 2000 * VQ

\* container.getBoundingClientRect(): left, top
RectOrigin == [x |-> 10, y |-> 20]
\* sizes the container takes
Sizes == {[width |-> 800, height |-> 600], [width |-> 400, height |-> 300]}
\* pointer positions (clientX, clientY) of mouse events
Pointers == {[x |-> 410, y |-> 320], [x |-> 430, y |-> 330], [x |-> 410, y |-> 350]}
DeltaYs == {-100, 100}
NodeIds == {"a", "b"}
InitNodes == << [id |-> "a", x |-> 0, y |-> 0, vx |-> 0, vy |-> 0],
                [id |-> "b", x |-> 20 * Q, y |-> 10 * Q, vx |-> 0, vy |-> 0] >>

\* node arrays and connection arrays given to the physics engine
Node(id, x, y, vx, vy) == [id |-> id, x |-> x, y |-> y, vx |-> vx, vy |-> vy]
SimNodeSets ==
    { InitNodes,
      << Node("a", -100 * Q, 0, 0, 0), Node("b", 100 * Q, 0, 2 * VQ, -VQ) >>,
      << Node("a", 0, 0, 0, 0), Node("b", 0, 0, 0, 0),
         Node("c", -30 * Q, 40 * Q, VQ \div 2, 0) >> }
Conn(source, target, strength) ==
    [source |-> source, target |-> target, strength |-> strength]
SimConnectionSets ==
    { << >>,
      << Conn("a", "b", (80 * SQ) \div 100) >>,
      << Conn("b", "a", 0), Conn("a", "z", (50 * SQ) \div 100) >> }
\* positions a caller moves a node to
DragTargets == {[x |-> 5 * Q, y |-> -5 * Q], [x |-> 60 * Q, y |-> 0]}

NoPoint == [set |-> FALSE, x |-> 0, y |-> 0]
Point(px, py) == [set |-> TRUE, x |-> px, y |-> py]

----------------------------------------------------------------------------
(* Physics engine: GraphSimulation *)

BaseAlpha == (3 * AQ) \div 10
MinAlpha == (5 * AQ) \div 100
CoolingPerMille == 995
CenterForcePer10000 == 25
Repulsion == 5000
AttractionPercent == 1
DampingPercent == 80
SnapVelocity == VQ \div 10000

\* Values of a JavaScript number that are no finite number, and the undefined
\* of an optional field.  They arise from a division by zero (x / 0 is an
\* infinity, 0 / 0 is NaN) and from a field never assigned.
NaN == 2147483647
PosInfinity == 2147483646
NegInfinity == -2147483646
Undefined == 2147483645
IsInfinite(v) == v = PosInfinity \/ v = NegInfinity
IsFinite(v) == ~IsInfinite(v) /\ v # NaN /\ v # Undefined

\* (v || 0): NaN, undefined and 0 read as 0
OrZero(v) == IF v = NaN \/ v = Undefined THEN 0 ELSE v

\* -v
Negated(v) ==
    IF v = NaN \/ v = Undefined THEN NaN
    ELSE IF v = PosInfinity THEN NegInfinity
    ELSE IF v = NegInfinity THEN PosInfinity
    ELSE -v

\* a + b
Plus(a, b) ==
    IF a = NaN \/ a = Undefined \/ b = NaN \/ b = Undefined THEN NaN
    ELSE IF IsInfinite(a) THEN (IF IsInfinite(b) /\ b # a THEN NaN ELSE a)
    ELSE IF IsInfinite(b) THEN b
    ELSE a + b

\* a - b
Minus(a, b) == Plus(a, Negated(b))

\* v * (n / d) for positive n and d
Scaled(v, n, d) ==
    IF IsFinite(v) THEN MulDiv(v, n, d)
    ELSE IF v = Undefined THEN NaN
    ELSE v

\* node[axis] * this.centerForce * this.alpha, as a velocity
CenterPull(coord, a) ==
    MulDiv(MulDiv(coord, (VQ \div Q) * CenterForcePer10000, 10000), a, AQ)

\* applyCenteringForce
ApplyCenteringForce(ns, a, draggedNodeId) ==
    [i \in 1..Len(ns) |->
        IF ns[i].id = draggedNodeId THEN ns[i]
        ELSE [ns[i] EXCEPT !.vx = OrZero(@) - CenterPull(OrZero(ns[i].x), a),
                           !.vy = OrZero(@) - CenterPull(OrZero(ns[i].y), a)]]

\* Math.sqrt(dx * dx + dy * dy) || 1
DistOrOne(dx, dy) == LET dist == Hypot(dx, dy) IN IF dist = 0 THEN Q ELSE dist

\* (this.repulsion * this.alpha) / (dist * dist), as a velocity
RepulsionForce(dist, a) ==
    IF dist = 0 THEN PosInfinity
    ELSE MulDiv(MulDiv(Repulsion * (VQ \div AQ) * a, Q, dist), Q, dist)

\* (d / dist) * force for a force that is not negative
ForceComponent(force, d, dist) ==
    IF dist = 0 THEN (IF d = 0 \/ force = 0 THEN NaN
                      ELSE IF d > 0 THEN PosInfinity ELSE NegInfinity)
    ELSE IF IsInfinite(force) THEN (IF d = 0 THEN NaN
                                    ELSE IF d > 0 THEN PosInfinity ELSE NegInfinity)
    ELSE MulDiv(force, d, dist)

\* the inner loop body of applyRepulsionForces pushing coincident nodes apart
\* along the x axis, and dividing by the distance as it is
RepelPairUnitDirection(ns, a, draggedNodeId, i, j) ==
    LET dx == OrZero(ns[j].x) - OrZero(ns[i].x)
        dy == OrZero(ns[j].y) - OrZero(ns[i].y)
        dist == Hypot(dx, dy)
        force == RepulsionForce(dist, a)
        fx == IF dist = 0 THEN force ELSE ForceComponent(force, dx, dist)
        fy == IF dist = 0 THEN 0 ELSE ForceComponent(force, dy, dist)
        n1 == IF ns[i].id # draggedNodeId
              THEN [ns[i] EXCEPT !.vx = Minus(OrZero(@), fx),
                                 !.vy = Minus(OrZero(@), fy)] ELSE ns[i]
        n2 == IF ns[j].id # draggedNodeId
              THEN [ns[j] EXCEPT !.vx = Plus(OrZero(@), fx),
                                 !.vy = Plus(OrZero(@), fy)] ELSE ns[j]
    IN  [ns EXCEPT ![i] = n1, ![j] = n2]

\* the body of the inner loop of applyRepulsionForces for the pair (i, j)
RepelPair(ns, a, draggedNodeId, i, j) ==
    LET dx == OrZero(ns[j].x) - OrZero(ns[i].x)
        dy == OrZero(ns[j].y) - OrZero(ns[i].y)
        dist == DistOrOne(dx, dy)
        force == RepulsionForce(dist, a)
        fx == ForceComponent(force, dx, dist)
        fy == ForceComponent(force, dy, dist)
        n1 == IF ns[i].id # draggedNodeId
              THEN [ns[i] EXCEPT !.vx = Minus(OrZero(@), fx),
                                 !.vy = Minus(OrZero(@), fy)] ELSE ns[i]
        n2 == IF ns[j].id # draggedNodeId
              THEN [ns[j] EXCEPT !.vx = Plus(OrZero(@), fx),
                                 !.vy = Plus(OrZero(@), fy)] ELSE ns[j]
    IN  [ns EXCEPT ![i] = n1, ![j] = n2]

\* applyRepulsionForces: for i, for j = i + 1 ..
RECURSIVE RepulsionLoop(_, _, _, _, _)
RepulsionLoop(ns, a, draggedNodeId, i, j) ==
    IF i > Len(ns) THEN ns
    ELSE IF j > Len(ns) THEN RepulsionLoop(ns, a, draggedNodeId, i + 1, i + 2)
    ELSE RepulsionLoop(RepelPair(ns, a, draggedNodeId, i, j), a, draggedNodeId, i, j + 1)

ApplyRepulsionForces(ns, a, draggedNodeId) == RepulsionLoop(ns, a, draggedNodeId, 1, 2)

\* nodes.find(n => n.id === id): the index of the first such node, 0 if none
FindIndex(ns, id) ==
    LET found == {i \in 1..Len(ns) : ns[i].id = id}
    IN  IF found = {} THEN 0 ELSE CHOOSE i \in found : \A j \in found : i <= j

\* dist * this.attraction * (conn.strength || 0.1) * this.alpha, as a velocity
AttractionForce(dist, strength, a) ==
    LET st == IF strength = 0 THEN SQ \div 10 ELSE strength
    IN  MulDiv(MulDiv(MulDiv(dist, (VQ \div Q) * AttractionPercent, 100), st, SQ), a, AQ)

\* the body of the loop of applyAttractionForces for one connection
Attract(ns, conn, a, draggedNodeId) ==
    LET si == FindIndex(ns, conn.source)
        ti == FindIndex(ns, conn.target)
    IN  IF si = 0 \/ ti = 0 THEN ns
        ELSE LET dx == OrZero(ns[ti].x) - OrZero(ns[si].x)
                 dy == OrZero(ns[ti].y) - OrZero(ns[si].y)
                 dist == DistOrOne(dx, dy)
                 force == AttractionForce(dist, conn.strength, a)
                 fx == ForceComponent(force, dx, dist)
                 fy == ForceComponent(force, dy, dist)
                 ns1 == IF ns[si].id # draggedNodeId
                        THEN [ns EXCEPT ![si].vx = Plus(OrZero(@), fx),
                                        ![si].vy = Plus(OrZero(@), fy)] ELSE ns
             IN  IF ns1[ti].id # draggedNodeId
                 THEN [ns1 EXCEPT ![ti].vx = Minus(OrZero(@), fx),
                                  ![ti].vy = Minus(OrZero(@), fy)] ELSE ns1

\* applyAttractionForces: connections.forEach, from connection k on
RECURSIVE AttractionLoop(_, _, _, _, _)
AttractionLoop(ns, conns, a, draggedNodeId, k) ==
    IF k > Len(conns) THEN ns
    ELSE AttractionLoop(Attract(ns, conns[k], a, draggedNodeId), conns, a,
                        draggedNodeId, k + 1)

ApplyAttractionForces(ns, conns, a, draggedNodeId) ==
    AttractionLoop(ns, conns, a, draggedNodeId, 1)

\* node.vx * this.damping, snapped to 0 below 0.0001
Damped(v) ==
    LET d == Scaled(OrZero(v), DampingPercent, 100)
    IN  IF IsFinite(d) /\ Abs(d) < SnapVelocity THEN 0 ELSE d

\* updatePositions moving the dragged node like any other
UpdatePositionsAll(ns, draggedNodeId) ==
    [i \in 1..Len(ns) |->
        [ns[i] EXCEPT !.x = Plus(OrZero(@), Scaled(OrZero(ns[i].vx), Q, VQ)),
                      !.y = Plus(OrZero(@), Scaled(OrZero(ns[i].vy), Q, VQ)),
                      !.vx = Damped(@), !.vy = Damped(@)]]

\* updatePositions
UpdatePositions(ns, draggedNodeId) ==
    [i \in 1..Len(ns) |->
        IF ns[i].id # draggedNodeId
        THEN [ns[i] EXCEPT !.x = Plus(OrZero(@), Scaled(OrZero(ns[i].vx), Q, VQ)),
                           !.y = Plus(OrZero(@), Scaled(OrZero(ns[i].vy), Q, VQ)),
                           !.vx = Damped(@), !.vy = Damped(@)]
        ELSE ns[i]]

\* simulate cooling alpha before it applies the forces
SimulateNodesCooledFirst(ns, conns, a, draggedNodeId) ==
    UpdatePositions(
        ApplyAttractionForces(
            ApplyRepulsionForces(
                ApplyCenteringForce(ns, Max(MinAlpha, MulDiv(a, CoolingPerMille, 1000)),
                                    draggedNodeId),
                Max(MinAlpha, MulDiv(a, CoolingPerMille, 1000)), draggedNodeId),
            conns, Max(MinAlpha, MulDiv(a, CoolingPerMille, 1000)), draggedNodeId),
        draggedNodeId)

\* simulate: the node array after one tick
SimulateNodes(ns, conns, a, draggedNodeId) ==
    UpdatePositions(
        ApplyAttractionForces(
            ApplyRepulsionForces(
                ApplyCenteringForce(ns, a, draggedNodeId), a, draggedNodeId),
            conns, a, draggedNodeId),
        draggedNodeId)

\* simulate: Math.max(this.minAlpha, this.alpha * this.cooling)
\* CoolAlpha floored at baseAlpha
CoolAlphaFlooredAtBase(a) == Max(BaseAlpha, MulDiv(a, CoolingPerMille, 1000))

\* Math.max(this.minAlpha, this.alpha * this.cooling)
CoolAlpha(a) == Max(MinAlpha, MulDiv(a, CoolingPerMille, 1000))

----------------------------------------------------------------------------
(* The client of the language-model provider: utils/api.ts *)

\* an APIConfig; an unset string of the environment or of a form is ""
Config(provider, apiKey, baseUrl) ==
    [provider |-> provider, apiKey |-> apiKey, baseUrl |-> baseUrl]
\* private config: APIConfig | null = null
NullConfig == Config(Null, "", "")
\* import.meta.env, and what StorageManager.loadAPIConfig() returns
Env(anthropicKey, openaiKey, customUrl, customKey, saved) ==
    [anthropicKey |-> anthropicKey, openaiKey |-> openaiKey,
     customUrl |-> customUrl, customKey |-> customKey, saved |-> saved]
NoEnv == Env("", "", "", "", NullConfig)

Client(config, useCustomAPI, isMockMode) ==
    [config |-> config, useCustomAPI |-> useCustomAPI, isMockMode |-> isMockMode]

\* new APIClient(): the field initializers, then initializeFromEnv
InitializeFromEnv(env) ==
    IF env.anthropicKey # "" THEN Client(Config("claude", env.anthropicKey, ""), TRUE, FALSE)
    ELSE IF env.openaiKey # "" THEN Client(Config("openai", env.openaiKey, ""), TRUE, FALSE)
    ELSE IF env.customUrl # "" /\ env.customKey # ""
         THEN Client(Config("custom", env.customKey, env.customUrl), TRUE, FALSE)
    ELSE Client(NullConfig, FALSE, TRUE)

\* setConfig(config, useCustom)
SetConfig(client, config, useCustom) ==
    Client(config, useCustom,
           IF useCustom /\ config.apiKey # "" THEN FALSE ELSE client.isMockMode)

\* what a call of the client reached: the mock client, or a provider with a key
ApiCall(target, provider, apiKey, ok) ==
    [target |-> target, provider |-> provider, apiKey |-> apiKey, ok |-> ok]

\* callLLM leaving the mode as it is when the call fails
CallLLMKeepsMode(client, ok) ==
    IF client.isMockMode
    THEN [client |-> client, content |-> "mock", error |-> FALSE, requests |-> << >>]
    ELSE LET config == IF client.useCustomAPI /\ client.config.apiKey # ""
                       THEN client.config ELSE NullConfig
             request == <<ApiCall(IF config.provider = "claude" THEN "callClaude"
                                  ELSE "callOpenAI", config.provider, config.apiKey, ok)>>
         IN  IF config = NullConfig
             THEN [client |-> client, content |-> "", error |-> TRUE, requests |-> << >>]
             ELSE IF ok
             THEN [client |-> client, content |-> "completion", error |-> FALSE,
                   requests |-> request]
             ELSE [client |-> client, content |-> "", error |-> TRUE,
                   requests |-> request]

\* callLLM(prompt) when the request to the provider succeeds (ok) or fails:
\* the client after it, the response and the requests made
CallLLM(client, ok) ==
    IF client.isMockMode
    THEN [client |-> client, content |-> "mock", error |-> FALSE, requests |-> << >>]
    ELSE LET config == IF client.useCustomAPI /\ client.config.apiKey # ""
                       THEN client.config ELSE NullConfig
             failed == [client |-> [client EXCEPT !.isMockMode = TRUE],
                        content |-> "", error |-> TRUE, requests |-> << >>]
             request == <<ApiCall(IF config.provider = "claude" THEN "callClaude"
                                  ELSE "callOpenAI", config.provider, config.apiKey, ok)>>
         IN  IF config = NullConfig THEN failed
             ELSE IF ok
             THEN [client |-> client, content |-> "completion", error |-> FALSE,
                   requests |-> request]
             ELSE [failed EXCEPT !.requests = request]

\* extractConcepts / findConnections / findInternalConnections /
\* generateSerendipity: the client after the call and what the call reached
ClientCall(client, ok) ==
    IF client.isMockMode
    THEN [client |-> client, reached |-> <<ApiCall("mock", Null, "", TRUE)>>]
    ELSE LET response == CallLLM(client, ok)
         IN  [client |-> response.client,
              reached |-> IF response.error \/ response.content = ""
                          THEN response.requests \o <<ApiCall("mock", Null, "", TRUE)>>
                          ELSE response.requests]

\* useAPIConfig: useState(false), useState({provider: 'claude', apiKey: '', baseUrl: ''})
HookInitialConfig == Config("claude", "", "")
Hook(apiConfig, useCustomAPI, mounted, pushed) ==
    [apiConfig |-> apiConfig, useCustomAPI |-> useCustomAPI,
     mounted |-> mounted, pushed |-> pushed]

\* the host state of an application with no key in the environment, nothing
\* saved, no filter, no search and the light theme, once it has mounted
HostIdle ==
    /\ filterStrength = 0
    /\ searchQuery = << >>
    /\ isDark = FALSE
    /\ apiEnv = NoEnv
    /\ apiClient = SetConfig(InitializeFromEnv(NoEnv), HookInitialConfig, FALSE)
    /\ apiHook = Hook(HookInitialConfig, FALSE, TRUE, TRUE)

----------------------------------------------------------------------------
(* Interaction controller: hooks/useCanvasInteraction.ts *)

ZoomMin == ZS \div 2
ZoomMax == 3 * ZS
PickRadius == 12

NoEffect == [loop |-> 0, animationId |-> 0]

InitCanvasState ==
    [zoom |-> ZS,
     pan |-> [x |-> 0, y |-> 0],
     isDraggingCanvas |-> FALSE,
     draggedNode |-> Null,
     lastMousePos |-> [x |-> 0, y |-> 0],
     popupPosition |-> NoPoint,
     canvasSize |-> [width |-> 800, height |-> 600]]

\* ToWorldX without the surface's left edge
ToWorldXNoOrigin(screenX, st) ==
    RoundDiv((screenX - (st.canvasSize.width \div 2) - st.pan.x) * Q * ZS, st.zoom)

\* pointer (client pixels) to world units under camera st
ToWorldX(screenX, st) ==
    RoundDiv((screenX - RectOrigin.x - (st.canvasSize.width \div 2) - st.pan.x) * Q * ZS,
             st.zoom)
ToWorldY(screenY, st) ==
    RoundDiv((screenY - RectOrigin.y - (st.canvasSize.height \div 2) - st.pan.y) * Q * ZS,
             st.zoom)

\* WithinPick testing each axis on its own
WithinPickSquare(node, canvasX, canvasY) ==
    /\ Abs(node.x - canvasX) < PickRadius * Q
    /\ Abs(node.y - canvasY) < PickRadius * Q

\* Math.sqrt(dx*dx + dy*dy) < 12; a component of 12 or more already decides
\* the comparison and is not squared
WithinPick(node, canvasX, canvasY) ==
    LET dx == node.x - canvasX
        dy == node.y - canvasY
    IN  /\ Abs(dx) < PickRadius * Q
        /\ Abs(dy) < PickRadius * Q
        /\ dx * dx + dy * dy < (PickRadius * Q) * (PickRadius * Q)

\* nodes.find(...) || null : the id of the first node within the pick radius
GetNodeAtPosition(screenX, screenY, ns, st) ==
    LET canvasX == ToWorldX(screenX, st)
        canvasY == ToWorldY(screenY, st)
        found == {i \in 1..Len(ns) : WithinPick(ns[i], canvasX, canvasY)}
    IN  IF found = {} THEN Null
        ELSE ns[CHOOSE i \in found : \A j \in found : i <= j].id

\* useKnowledgeGraph.updateNodePosition: the functional update of graph.nodes
\* updateNodePosition adding the node if no node has the id
UpdateNodePositionOrAdd(ns, nodeId, x, y) ==
    IF \E i \in 1..Len(ns) : ns[i].id = nodeId
    THEN [i \in 1..Len(ns) |->
             IF ns[i].id = nodeId
             THEN [ns[i] EXCEPT !.x = x, !.y = y, !.vx = 0, !.vy = 0]
             ELSE ns[i]]
    ELSE Append(ns, [id |-> nodeId, x |-> x, y |-> y, vx |-> 0, vy |-> 0])

UpdateNodePosition(ns, nodeId, x, y) ==
    [i \in 1..Len(ns) |->
        IF ns[i].id = nodeId
        THEN [ns[i] EXCEPT !.x = x, !.y = y, !.vx = 0, !.vy = 0]
        ELSE ns[i]]

\* WheelZoom without the clamp
WheelZoomUnclamped(zoom, deltaY) ==
    RoundDiv(zoom * (IF deltaY > 0 THEN 9 ELSE 11), 10)

\* WheelZoom with the two directions exchanged
WheelZoomInverted(zoom, deltaY) ==
    LET delta == IF deltaY > 0 THEN 11 ELSE 9
    IN  Max(ZoomMin, Min(ZoomMax, RoundDiv(zoom * delta, 10)))

\* Math.max(0.5, Math.min(3, prev.zoom * delta))
WheelZoom(zoom, deltaY) ==
    LET delta == IF deltaY > 0 THEN 9 ELSE 11
    IN  Max(ZoomMin, Min(ZoomMax, RoundDiv(zoom * delta, 10)))

Call(cb, id, x, y) == [cb |-> cb, id |-> id, x |-> x, y |-> y]
Event(type, x, y, hit, mod, dy) ==
    [type |-> type, x |-> x, y |-> y, hit |-> hit, mod |-> mod, deltaY |-> dy]
NoRun == [active |-> FALSE, pan0 |-> [x |-> 0, y |-> 0], p0 |-> [x |-> 0, y |-> 0]]

Init ==
    /\ canvasState = InitCanvasState
    /\ rendered = InitCanvasState
    /\ hoveredNode = Null
    /\ nodes = InitNodes
    /\ renderedNodes = InitNodes
    /\ selectedNode = Null
    /\ calls = << >>
    /\ ev = Event("mount", 0, 0, Null, FALSE, 0)
    /\ panRun = NoRun
    /\ pending = 0
    /\ events = 0
    /\ alpha = BaseAlpha
    /\ connections = << >>
    /\ ticks = 0
    /\ simCall = Null
    /\ rafCallbacks = {}
    /\ nextRafId = 1
    /\ effect = NoEffect
    /\ tornDown = {}
    /\ frameLog = << >>
    /\ frames = 0
    /\ HostIdle

\* PopupAnchorUpdate anchoring at the client position
PopupAnchorClient(prev, p) == [prev EXCEPT !.popupPosition = Point(p.x, p.y)]
\* PanStartUpdate without recording the pointer
PanStartNoAnchor(prev, p) == [prev EXCEPT !.isDraggingCanvas = TRUE]

\* the functional updates of handleMouseDown, in the order they are queued
DragStartUpdate(prev, nodeId) == [prev EXCEPT !.draggedNode = nodeId]
PopupAnchorUpdate(prev, p) ==
    [prev EXCEPT !.popupPosition = Point(p.x - RectOrigin.x, p.y - RectOrigin.y)]
PanStartUpdate(prev, p) ==
    [prev EXCEPT !.isDraggingCanvas = TRUE, !.lastMousePos = [x |-> p.x, y |-> p.y]]
PopupClearUpdate(prev) == [prev EXCEPT !.popupPosition = NoPoint]

\* handleMouseDown; mousedown is a discrete event, its updates are rendered
\* before the next event
HandleMouseDown(p) ==
    LET node == GetNodeAtPosition(p.x, p.y, renderedNodes, rendered)
        next == IF node # Null
                THEN PopupAnchorUpdate(DragStartUpdate(canvasState, node), p)
                ELSE PopupClearUpdate(PanStartUpdate(canvasState, p))
    IN  /\ canvasState' = next
        /\ rendered' = next
        /\ renderedNodes' = nodes
        /\ pending' = 0
        /\ selectedNode' = node
        /\ calls' = << Call("onNodeSelect", node, 0, 0) >>
        /\ ev' = Event("mousedown", p.x, p.y, node, FALSE, 0)
        /\ panRun' = IF node # Null
                     THEN [panRun EXCEPT !.active = FALSE]
                     ELSE [active |-> TRUE, pan0 |-> next.pan, p0 |-> p]
        /\ UNCHANGED <<hoveredNode, nodes>>

\* the functional update of handleMouseMove while panning
PanUpdate(prev, dx, dy, p) ==
    [prev EXCEPT !.pan = [x |-> prev.pan.x + dx, y |-> prev.pan.y + dy],
                 !.lastMousePos = [x |-> p.x, y |-> p.y]]

\* DragPopupUpdate anchoring the popup whether or not it is shown
DragPopupAlways(prev, closure, p) == PopupAnchorUpdate(prev, p)

\* the popup update of a drag move: the popup follows the pointer if the
\* handler's canvasState has an anchor
DragPopupUpdate(prev, closure, p) ==
    IF closure.popupPosition.set THEN PopupAnchorUpdate(prev, p) ELSE prev

\* handleMouseMove; mousemove is a continuous event, its updates wait for
\* the next render
HandleMouseMove(p) ==
    LET node == GetNodeAtPosition(p.x, p.y, renderedNodes, rendered)
        canvasX == ToWorldX(p.x, rendered)
        canvasY == ToWorldY(p.y, rendered)
        dx == p.x - rendered.lastMousePos.x
        dy == p.y - rendered.lastMousePos.y
    IN  /\ pending < MaxPending
        /\ pending' = pending + 1
        /\ hoveredNode' = node
        /\ ev' = Event("mousemove", p.x, p.y, node, FALSE, 0)
        /\ IF rendered.draggedNode # Null
           THEN /\ calls' = << Call("onNodePositionUpdate", rendered.draggedNode,
                                    canvasX, canvasY) >>
                /\ nodes' = UpdateNodePosition(nodes, rendered.draggedNode,
                                               canvasX, canvasY)
                /\ canvasState' = DragPopupUpdate(canvasState, rendered, p)
                /\ UNCHANGED panRun
           ELSE IF rendered.isDraggingCanvas
           THEN /\ canvasState' = PanUpdate(canvasState, dx, dy, p)
                /\ calls' = << >>
                /\ UNCHANGED panRun
                /\ UNCHANGED nodes
           ELSE /\ calls' = << >>
                /\ UNCHANGED panRun
                /\ UNCHANGED <<canvasState, nodes>>
        /\ UNCHANGED <<rendered, renderedNodes, selectedNode>>

\* MouseUpUpdate leaving the panning flag set
MouseUpKeepsPanning(prev) == [prev EXCEPT !.draggedNode = Null]

\* the functional update of handleMouseUp
MouseUpUpdate(prev) ==
    [prev EXCEPT !.draggedNode = Null, !.isDraggingCanvas = FALSE]

\* handleMouseUp as onMouseUp (discrete event)
HandleMouseUp ==
    /\ canvasState' = MouseUpUpdate(canvasState)
    /\ rendered' = canvasState'
    /\ renderedNodes' = nodes
    /\ pending' = 0
    /\ calls' = << >>
    /\ ev' = Event("mouseup", 0, 0, Null, FALSE, 0)
    /\ panRun' = [panRun EXCEPT !.active = FALSE]
    /\ UNCHANGED <<hoveredNode, nodes, selectedNode>>

\* handleMouseUp as onMouseLeave (continuous event)
HandleMouseLeave ==
    /\ pending < MaxPending
    /\ pending' = pending + 1
    /\ canvasState' = MouseUpUpdate(canvasState)
    /\ calls' = << >>
    /\ ev' = Event("mouseleave", 0, 0, Null, FALSE, 0)
    /\ panRun' = [panRun EXCEPT !.active = FALSE]
    /\ UNCHANGED <<rendered, renderedNodes, hoveredNode, nodes, selectedNode>>

\* a wheel handler that zooms whatever keys are held
WheelAlwaysZooms(metaKey, ctrlKey) == TRUE

\* event.metaKey || event.ctrlKey
WheelZooms(metaKey, ctrlKey) == metaKey \/ ctrlKey

\* handleWheel through the non-passive listener (continuous event); ev.mod
\* records whether a modifier key was held, ev.hit whether preventDefault
\* was called, ev.x the zoom the update read
HandleWheel(metaKey, ctrlKey, deltaY) ==
    /\ pending < MaxPending
    /\ pending' = pending + 1
    /\ canvasState' = IF WheelZooms(metaKey, ctrlKey)
                      THEN [canvasState EXCEPT !.zoom = WheelZoom(@, deltaY)]
                      ELSE canvasState
    /\ calls' = << >>
    /\ ev' = Event("wheel", canvasState.zoom, 0,
                   IF WheelZooms(metaKey, ctrlKey) THEN "prevented" ELSE Null,
                   metaKey \/ ctrlKey, deltaY)
    /\ panRun' = [panRun EXCEPT !.active = FALSE]
    /\ UNCHANGED <<rendered, renderedNodes, hoveredNode, nodes, selectedNode>>

\* ResetViewUpdate that also ends the gesture in progress
ResetViewEndsGesture(prev) ==
    [prev EXCEPT !.zoom = ZS, !.pan = [x |-> 0, y |-> 0],
                 !.draggedNode = Null, !.isDraggingCanvas = FALSE]

\* the functional update of resetView
ResetViewUpdate(prev) == [prev EXCEPT !.zoom = ZS, !.pan = [x |-> 0, y |-> 0]]

\* resetView, the click handler of the reset button (discrete event)
ResetView ==
    /\ canvasState' = ResetViewUpdate(canvasState)
    /\ rendered' = canvasState'
    /\ renderedNodes' = nodes
    /\ pending' = 0
    /\ calls' = << >>
    /\ ev' = Event("resetView", 0, 0, Null, FALSE, 0)
    /\ panRun' = [panRun EXCEPT !.active = FALSE]
    /\ UNCHANGED <<hoveredNode, nodes, selectedNode>>

\* ClosePopupUpdate that also drops the dragged node
ClosePopupEndsDrag(prev) == [prev EXCEPT !.popupPosition = NoPoint, !.draggedNode = Null]

\* the functional update of closePopup
ClosePopupUpdate(prev) == [prev EXCEPT !.popupPosition = NoPoint]

\* closePopup, the click handler of the popup's close button, which is
\* rendered only while a node is selected and the popup is anchored
ClosePopup ==
    /\ selectedNode # Null
    /\ rendered.popupPosition.set
    /\ canvasState' = ClosePopupUpdate(canvasState)
    /\ rendered' = canvasState'
    /\ renderedNodes' = nodes
    /\ pending' = 0
    /\ calls' = << >>
    /\ ev' = Event("closePopup", 0, 0, Null, FALSE, 0)
    /\ panRun' = [panRun EXCEPT !.active = FALSE]
    /\ UNCHANGED <<hoveredNode, nodes, selectedNode>>

\* CanvasSizeUpdate that also re-centres the camera
CanvasSizeRecentres(prev, size) ==
    [prev EXCEPT !.canvasSize = size, !.pan = [x |-> 0, y |-> 0]]

\* the functional update of updateCanvasSize
CanvasSizeUpdate(prev, size) == [prev EXCEPT !.canvasSize = size]

\* updateCanvasSize on a window resize (discrete event)
UpdateCanvasSize(size) ==
    /\ canvasState' = CanvasSizeUpdate(canvasState, size)
    /\ rendered' = canvasState'
    /\ renderedNodes' = nodes
    /\ pending' = 0
    /\ calls' = << >>
    /\ ev' = Event("resize", 0, 0, Null, FALSE, 0)
    /\ panRun' = [panRun EXCEPT !.active = FALSE]
    /\ UNCHANGED <<hoveredNode, nodes, selectedNode>>

\* React renders the pending updates of continuous events: the callbacks are
\* re-created over the current state
Render ==
    /\ pending > 0
    /\ rendered' = canvasState
    /\ renderedNodes' = nodes
    /\ pending' = 0
    /\ UNCHANGED <<canvasState, hoveredNode, nodes, selectedNode, calls, ev, panRun>>

MouseDownStep == \E p \in Pointers : HandleMouseDown(p)
MouseMoveStep == \E p \in Pointers : HandleMouseMove(p)
WheelStep ==
    \E metaKey \in BOOLEAN, ctrlKey \in BOOLEAN, deltaY \in DeltaYs :
        HandleWheel(metaKey, ctrlKey, deltaY)
ResizeStep == \E size \in Sizes : UpdateCanvasSize(size)

\* an input event counted against a budget of max events
Counted(A, max) ==
    events < max /\ events' = events + 1 /\ A /\ UNCHANGED <<simVars, loopVars, hostVars>>

\* every input event, in any order, up to MaxEvents of them
MouseDownEvent == Counted(MouseDownStep, MaxEvents)
MouseMoveEvent == Counted(MouseMoveStep, MaxEvents)
MouseUpEvent == Counted(HandleMouseUp, MaxEvents)
MouseLeaveEvent == Counted(HandleMouseLeave, MaxEvents)
WheelEvent == Counted(WheelStep, MaxEvents)
ResetViewClickEvent == Counted(ResetView, MaxEvents)
ClosePopupClickEvent == Counted(ClosePopup, MaxEvents)
ResizeEvent == Counted(ResizeStep, MaxEvents)
RenderTask == Render /\ UNCHANGED <<events, simVars, loopVars, hostVars>>

Next ==
    \/ MouseDownEvent
    \/ MouseMoveEvent
    \/ MouseUpEvent
    \/ MouseLeaveEvent
    \/ WheelEvent
    \/ ResetViewClickEvent
    \/ ClosePopupClickEvent
    \/ ResizeEvent
    \/ RenderTask

Spec == Init /\ [][Next]_vars

\* any number of wheel events, among up to MaxZoomEvents other events; the
\* pointer is on node a or on empty canvas
ZoomPointers == {[x |-> 410, y |-> 320], [x |-> 410, y |-> 350]}
ZoomMouseDownEvent ==
    Counted(\E p \in ZoomPointers : HandleMouseDown(p), MaxZoomEvents)
ZoomMouseMoveEvent ==
    Counted(\E p \in ZoomPointers : HandleMouseMove(p), MaxZoomEvents)
ZoomMouseUpEvent == Counted(HandleMouseUp, MaxZoomEvents)
ZoomMouseLeaveEvent == Counted(HandleMouseLeave, MaxZoomEvents)
ZoomWheelEvent == WheelStep /\ UNCHANGED <<events, simVars, loopVars, hostVars>>
ZoomResetViewClickEvent == Counted(ResetView, MaxZoomEvents)
ZoomClosePopupClickEvent == Counted(ClosePopup, MaxZoomEvents)
ZoomResizeEvent == Counted(ResizeStep, MaxZoomEvents)

NextZoom ==
    \/ ZoomMouseDownEvent
    \/ ZoomMouseMoveEvent
    \/ ZoomMouseUpEvent
    \/ ZoomMouseLeaveEvent
    \/ ZoomWheelEvent
    \/ ZoomResetViewClickEvent
    \/ ZoomClosePopupClickEvent
    \/ ZoomResizeEvent
    \/ RenderTask

SpecZoom == Init /\ [][NextZoom]_vars

----------------------------------------------------------------------------
(* The renderer's projection: GraphRenderer.setupTransform, called by       *)
(* animate with the surface size of its render and the zoom and pan refs,   *)
(* which an effect sets to the rendered zoom and pan                        *)

RendererCamera ==
    [zoom |-> rendered.zoom, pan |-> rendered.pan, canvasSize |-> rendered.canvasSize]

\* translate(width / 2 + pan.x, ...) then scale(zoom): world units to surface pixels
ToScreenX(worldX, cam) ==
    (cam.canvasSize.width \div 2) + cam.pan.x + RoundDiv(cam.zoom * worldX, ZS * Q)
ToScreenY(worldY, cam) ==
    (cam.canvasSize.height \div 2) + cam.pan.y + RoundDiv(cam.zoom * worldY, ZS * Q)

----------------------------------------------------------------------------
(* Properties of the interaction controller *)

\* the step handles a new input event of type t (every event is counted in Spec)
Handled(t) == events' = events + 1 /\ ev'.type = t
NodeById(ns, id) == ns[CHOOSE i \in 1..Len(ns) : ns[i].id = id]

\* C1: whatever wheel, resetView, pointer and resize events have been handled,
\* the zoom factor (held and rendered) is within [0.5, 3.0]
C1ZoomWithinBounds ==
    /\ ZoomMin <= canvasState.zoom /\ canvasState.zoom <= ZoomMax
    /\ ZoomMin <= rendered.zoom /\ rendered.zoom <= ZoomMax

\* a zoom-in whose product exceeds 3.0 has been clamped to 3.0
C1Witness ==
    /\ ev.type = "wheel" /\ ev.mod /\ ev.deltaY < 0
    /\ ev.x * 11 > ZoomMax * 10
    /\ canvasState.zoom = ZoomMax

\* C4: a dragged-node id and the panning flag never hold at the same time
C4DragExcludesPan ==
    ~(canvasState.draggedNode # Null /\ canvasState.isDraggingCanvas)

\* C5: a pointer-down that hits node n records n as dragged, calls the
\* selection callback exactly once with n, anchors the popup at the pointer
\* relative to the surface's corner and leaves zoom and pan alone
C5DownOnNode ==
    [][(Handled("mousedown") /\ ev'.hit # Null) =>
          /\ canvasState'.draggedNode = ev'.hit
          /\ calls' = << Call("onNodeSelect", ev'.hit, 0, 0) >>
          /\ selectedNode' = ev'.hit
          /\ canvasState'.popupPosition =
                Point(ev'.x - RectOrigin.x, ev'.y - RectOrigin.y)
          /\ canvasState'.zoom = canvasState.zoom
          /\ canvasState'.pan = canvasState.pan]_vars

\* a pointer-down has hit the second node under a panned, zoomed camera
C5Witness ==
    /\ ev.type = "mousedown" /\ ev.hit = "b"
    /\ canvasState.draggedNode = "b"
    /\ canvasState.zoom # ZS

\* C6: a pointer-down that hits no node sets the panning flag, records the
\* pointer as the last position, calls the selection callback with null and
\* clears the popup anchor
C6DownOnCanvas ==
    [][(Handled("mousedown") /\ ev'.hit = Null) =>
          /\ canvasState'.isDraggingCanvas
          /\ canvasState'.lastMousePos = [x |-> ev'.x, y |-> ev'.y]
          /\ calls' = << Call("onNodeSelect", Null, 0, 0) >>
          /\ selectedNode' = Null
          /\ canvasState'.popupPosition = NoPoint]_vars

\* a pointer-down on empty canvas has cleared a selection and its popup
C6Witness ==
    /\ ev.type = "mousedown" /\ ev.hit = Null
    /\ canvasState.isDraggingCanvas
    /\ canvasState.draggedNode # Null
    /\ canvasState.lastMousePos = [x |-> ev.x, y |-> ev.y]

\* C7: pointer-up and pointer-leave clear the dragged id and the panning
\* flag and leave hover, zoom, pan, popup anchor, surface size and the
\* selection as they were
C7UpYieldsIdle ==
    [][(Handled("mouseup") \/ Handled("mouseleave")) =>
          /\ canvasState'.draggedNode = Null
          /\ ~canvasState'.isDraggingCanvas
          /\ hoveredNode' = hoveredNode
          /\ canvasState'.zoom = canvasState.zoom
          /\ canvasState'.pan = canvasState.pan
          /\ canvasState'.popupPosition = canvasState.popupPosition
          /\ canvasState'.canvasSize = canvasState.canvasSize
          /\ selectedNode' = selectedNode]_vars

\* a pointer-up has ended a pan that moved the camera, with a node hovered
C7Witness ==
    /\ ev.type = "mouseup"
    /\ canvasState.pan # [x |-> 0, y |-> 0]
    /\ hoveredNode # Null
    /\ canvasState.draggedNode = Null /\ ~canvasState.isDraggingCanvas

\* C8: during a pan gesture (pointer-down on empty canvas at p0, then only
\* pointer-moves, the last at pn) pan is its value at pointer-down plus
\* pn - p0 and the last-pointer position is pn, however the moves fall
\* between renders
C8PanAccumulates ==
    (panRun.active /\ canvasState.draggedNode = Null) =>
        /\ canvasState.pan.x = panRun.pan0.x + (ev.x - panRun.p0.x)
        /\ canvasState.pan.y = panRun.pan0.y + (ev.y - panRun.p0.y)
        /\ canvasState.lastMousePos = [x |-> ev.x, y |-> ev.y]

\* C9: a pointer-move while a node is dragged calls the position-update
\* callback once, for the dragged id, with the world point that the renderer
\* projects onto the pointer's surface position; the node is given that
\* position, an anchored popup moves to the pointer's surface position, and
\* pan and zoom are unchanged
C9DragMove ==
    [][(Handled("mousemove") /\ canvasState.draggedNode # Null) =>
          /\ Len(calls') = 1
          /\ calls'[1].cb = "onNodePositionUpdate"
          /\ calls'[1].id = canvasState.draggedNode
          /\ ToScreenX(calls'[1].x, RendererCamera) = ev'.x - RectOrigin.x
          /\ ToScreenY(calls'[1].y, RendererCamera) = ev'.y - RectOrigin.y
          /\ NodeById(nodes', canvasState.draggedNode).x = calls'[1].x
          /\ NodeById(nodes', canvasState.draggedNode).y = calls'[1].y
          /\ (canvasState.popupPosition.set =>
                canvasState'.popupPosition =
                    Point(ev'.x - RectOrigin.x, ev'.y - RectOrigin.y))
          /\ canvasState'.pan = canvasState.pan
          /\ canvasState'.zoom = canvasState.zoom]_vars

\* a node has been dragged under a zoomed camera and its popup followed
C9Witness ==
    /\ ev.type = "mousemove"
    /\ canvasState.draggedNode = "b"
    /\ Len(calls) = 1 /\ calls[1].cb = "onNodePositionUpdate" /\ calls[1].id = "b"
    /\ rendered.zoom # ZS
    /\ canvasState.popupPosition = Point(ev.x - RectOrigin.x, ev.y - RectOrigin.y)
    /\ NodeById(nodes, "b").x # InitNodes[2].x

\* C10: a pointer-move while neither dragging nor panning sets the hovered
\* id to the hit-test result and changes nothing else
C10IdleMove ==
    [][(Handled("mousemove") /\ canvasState.draggedNode = Null
            /\ ~canvasState.isDraggingCanvas) =>
          /\ hoveredNode' = ev'.hit
          /\ canvasState' = canvasState
          /\ nodes' = nodes
          /\ selectedNode' = selectedNode
          /\ calls' = << >>]_vars

\* C11: a wheel event without a modifier key leaves the whole controller
\* state as it was and does not cancel the default scroll; one with a
\* modifier key cancels the default and changes nothing but zoom
C11WheelNeedsModifier ==
    [][Handled("wheel") =>
          /\ hoveredNode' = hoveredNode
          /\ selectedNode' = selectedNode
          /\ nodes' = nodes
          /\ IF ev'.mod
             THEN /\ ev'.hit = "prevented"
                  /\ canvasState' = [canvasState EXCEPT !.zoom = canvasState'.zoom]
             ELSE /\ ev'.hit = Null
                  /\ canvasState' = canvasState]_vars

\* a wheel event without a modifier has been let through while a node was
\* dragged under a zoomed, panned camera
C11Witness ==
    /\ ev.type = "wheel" /\ ~ev.mod /\ ev.hit = Null
    /\ canvasState.zoom # ZS
    /\ canvasState.draggedNode # Null

\* a step that handles a wheel event, counted or not
WheelHandled == ev'.type = "wheel" /\ pending' = pending + 1

\* C12: with a modifier held, a wheel event with deltaY > 0 sets zoom to
\* zoom * 0.9 and one with deltaY < 0 to zoom * 1.1, each clamped to
\* [0.5, 3.0]; from zoom 1.0 the results are 0.9 and 1.1
C12WheelZoomFactor ==
    [][(WheelHandled /\ ev'.mod) =>
          LET product == IF ev'.deltaY > 0
                         THEN RoundDiv(canvasState.zoom * 9, 10)
                         ELSE RoundDiv(canvasState.zoom * 11, 10)
              clamped == IF product < ZS \div 2 THEN ZS \div 2
                         ELSE IF product > 3 * ZS THEN 3 * ZS ELSE product
          IN  /\ canvasState'.zoom = clamped
              /\ (canvasState.zoom = ZS /\ ev'.deltaY > 0) =>
                     canvasState'.zoom = (9 * ZS) \div 10
              /\ (canvasState.zoom = ZS /\ ev'.deltaY < 0) =>
                     canvasState'.zoom = (11 * ZS) \div 10]_vars

\* a zoom-out whose product is below 0.5 has been clamped to 0.5
C12Witness ==
    /\ ev.type = "wheel" /\ ev.mod /\ ev.deltaY > 0
    /\ ev.x * 9 < 5 * ZS
    /\ ev.x > ZS \div 2
    /\ canvasState.zoom = ZS \div 2

\* C13: resetView sets zoom to 1 and pan to (0,0) and leaves the selection,
\* the hovered id, the dragged id, the panning flag, the popup anchor, the
\* last-pointer position and the surface size as they were
C13ResetView ==
    [][Handled("resetView") =>
          /\ canvasState'.zoom = ZS
          /\ canvasState'.pan = [x |-> 0, y |-> 0]
          /\ selectedNode' = selectedNode
          /\ hoveredNode' = hoveredNode
          /\ canvasState'.draggedNode = canvasState.draggedNode
          /\ canvasState'.isDraggingCanvas = canvasState.isDraggingCanvas
          /\ canvasState'.popupPosition = canvasState.popupPosition
          /\ canvasState'.lastMousePos = canvasState.lastMousePos
          /\ canvasState'.canvasSize = canvasState.canvasSize]_vars

\* the view has been reset in the middle of a pan gesture with a node hovered
C13Witness ==
    /\ ev.type = "resetView"
    /\ canvasState.zoom = ZS /\ canvasState.pan = [x |-> 0, y |-> 0]
    /\ canvasState.isDraggingCanvas
    /\ canvasState.lastMousePos # [x |-> 0, y |-> 0]
    /\ hoveredNode # Null

\* C14: closePopup clears the popup anchor and leaves zoom, pan, the dragged
\* id, the panning flag, the hovered id, the last-pointer position, the
\* surface size and the selection as they were
C14ClosePopup ==
    [][Handled("closePopup") =>
          /\ canvasState' = [canvasState EXCEPT !.popupPosition = NoPoint]
          /\ hoveredNode' = hoveredNode
          /\ selectedNode' = selectedNode]_vars

\* the popup of the selected node has been closed while the node was dragged
C14Witness ==
    /\ ev.type = "closePopup"
    /\ ~canvasState.popupPosition.set
    /\ selectedNode # Null
    /\ canvasState.draggedNode # Null

\* C15: a resize replaces the surface size and leaves zoom, pan, the dragged
\* id, the panning flag, the popup anchor and every node position as they
\* were
C15ResizeKeepsCamera ==
    [][Handled("resize") =>
          /\ canvasState'.zoom = canvasState.zoom
          /\ canvasState'.pan = canvasState.pan
          /\ canvasState'.draggedNode = canvasState.draggedNode
          /\ canvasState'.isDraggingCanvas = canvasState.isDraggingCanvas
          /\ canvasState'.popupPosition = canvasState.popupPosition
          /\ canvasState'.canvasSize \in Sizes
          /\ nodes' = nodes]_vars

\* the surface has shrunk under a panned, zoomed camera
C15Witness ==
    /\ ev.type = "resize"
    /\ canvasState.canvasSize # InitCanvasState.canvasSize
    /\ canvasState.pan # [x |-> 0, y |-> 0]
    /\ canvasState.zoom # ZS

----------------------------------------------------------------------------
(* The physics engine on its own: simulate ticks and position updates *)

InitSim ==
    /\ nodes \in SimNodeSets
    /\ connections \in SimConnectionSets
    /\ alpha = BaseAlpha
    /\ ticks = 0
    /\ simCall = Null
    /\ events = 0
    /\ canvasState = InitCanvasState
    /\ rendered = InitCanvasState
    /\ hoveredNode = Null
    /\ renderedNodes = nodes
    /\ selectedNode = Null
    /\ calls = << >>
    /\ ev = Event("mount", 0, 0, Null, FALSE, 0)
    /\ panRun = NoRun
    /\ pending = 0
    /\ rafCallbacks = {}
    /\ nextRafId = 1
    /\ effect = NoEffect
    /\ tornDown = {}
    /\ frameLog = << >>
    /\ frames = 0
    /\ HostIdle

\* the node sets whose next tick stays within the integers of the model:
\* every two nodes coincide or are MinSeparation apart, and no coordinate or
\* velocity exceeds MaxCoord or MaxSpeed
Representable(ns) ==
    /\ \A i \in 1..Len(ns) :
          /\ Abs(ns[i].x) <= MaxCoord /\ Abs(ns[i].y) <= MaxCoord
          /\ Abs(ns[i].vx) <= MaxSpeed /\ Abs(ns[i].vy) <= MaxSpeed
    /\ \A i, j \in 1..Len(ns) :
          i < j => LET dist == Hypot(ns[j].x - ns[i].x, ns[j].y - ns[i].y)
                   IN  dist = 0 \/ dist >= MinSeparation

\* graphSimulation.simulate(nodes, connections, draggedNodeId)
Simulate(draggedNodeId) ==
    /\ ticks < MaxTicks
    /\ Representable(nodes)
    /\ nodes' = SimulateNodes(nodes, connections, alpha, draggedNodeId)
    /\ alpha' = CoolAlpha(alpha)
    /\ ticks' = ticks + 1
    /\ simCall' = draggedNodeId
    /\ UNCHANGED <<connections, ctlVars, loopVars, hostVars>>

\* one tick with no node dragged, or with one of the nodes dragged
SimulateTick ==
    \E d \in {Null} \cup {nodes[i].id : i \in 1..Len(nodes)} : Simulate(d)

\* the caller's explicit position update of one node
PositionUpdate ==
    /\ events < MaxSimUpdates
    /\ \E i \in 1..Len(nodes), t \in DragTargets :
          nodes' = UpdateNodePosition(nodes, nodes[i].id, t.x, t.y)
    /\ events' = events + 1
    /\ UNCHANGED <<canvasState, rendered, hoveredNode, renderedNodes, selectedNode,
                   calls, ev, panRun, pending, simVars, loopVars, hostVars>>

NextSim == SimulateTick \/ PositionUpdate

SpecSim == InitSim /\ [][NextSim]_vars

\* C3: a simulate tick given d as the dragged node leaves the position of
\* every node with id d as it was, whatever the nodes and connections
C3PinnedNodeStays ==
    [][(ticks' = ticks + 1) =>
          \A i \in 1..Len(nodes) :
              nodes[i].id = simCall' =>
                  /\ nodes'[i].x = nodes[i].x
                  /\ nodes'[i].y = nodes[i].y]_vars

\* two ticks or more have run with node b pinned while it had a velocity and
\* a connection, and another node has moved
C3Witness ==
    /\ ticks >= 2
    /\ simCall = "b"
    /\ Len(connections) > 0
    /\ \E i \in 1..Len(nodes) : nodes[i].id = "b" /\ nodes[i].vx # 0
    /\ \E n \in SimNodeSets :
          /\ Len(n) = Len(nodes)
          /\ n[2].x = nodes[2].x /\ n[2].y = nodes[2].y
          /\ n[1].x # nodes[1].x

----------------------------------------------------------------------------
(* The render loop of GraphCanvas: the animation effect, its cleanup and   *)
(* the display refreshes that run the requestAnimationFrame callbacks      *)

\* the state after the first commit: the animation effect has run once
InitLoop ==
    /\ nodes \in SimNodeSets
    /\ connections \in SimConnectionSets
    /\ alpha = BaseAlpha
    /\ ticks = 0
    /\ simCall = Null
    /\ events = 0
    /\ canvasState = InitCanvasState
    /\ rendered = InitCanvasState
    /\ hoveredNode = Null
    /\ renderedNodes = nodes
    /\ selectedNode = Null
    /\ calls = << >>
    /\ ev = Event("mount", 0, 0, Null, FALSE, 0)
    /\ panRun = NoRun
    /\ pending = 0
    /\ rafCallbacks = {[id |-> 1, loop |-> 1]}
    /\ nextRafId = 2
    /\ effect = [loop |-> 1, animationId |-> 1]
    /\ tornDown = {}
    /\ frameLog = << >>
    /\ frames = 0
    /\ HostIdle

\* requestAnimationFrame(animate) of the given loop
RequestAnimationFrame(callbacks, id, loop) == callbacks \cup {[id |-> id, loop |-> loop]}

\* cancelAnimationFrame(id)
CancelAnimationFrame(callbacks, id) == {cb \in callbacks : cb.id # id}

\* the cleanup of the animation effect
EffectCleanup(callbacks, e) == CancelAnimationFrame(callbacks, e.animationId)

\* the body of the animation effect: a new loop asks for its first frame
RunEffect(callbacks, loop) == RequestAnimationFrame(callbacks, nextRafId, loop)

\* a dependency of the animation effect changes (the hovered node or the
\* selection): React runs the cleanup of the old effect, then the effect
DepsChange ==
    /\ effect.loop # 0
    /\ effect.loop < MaxEffects
    /\ \/ \E h \in (NodeIds \cup {Null}) \ {hoveredNode} :
             hoveredNode' = h /\ UNCHANGED selectedNode
       \/ \E n \in (NodeIds \cup {Null}) \ {selectedNode} :
             selectedNode' = n /\ UNCHANGED hoveredNode
    /\ rafCallbacks' = RunEffect(EffectCleanup(rafCallbacks, effect), effect.loop + 1)
    /\ nextRafId' = nextRafId + 1
    /\ effect' = [loop |-> effect.loop + 1, animationId |-> nextRafId]
    /\ tornDown' = tornDown \cup {effect.loop}
    /\ UNCHANGED <<canvasState, rendered, nodes, renderedNodes, calls, ev, panRun,
                   pending, events, simVars, frameLog, frames, hostVars>>

\* the component unmounts: React runs the cleanup of the effect
Unmount ==
    /\ effect.loop # 0
    /\ rafCallbacks' = EffectCleanup(rafCallbacks, effect)
    /\ effect' = NoEffect
    /\ tornDown' = tornDown \cup {effect.loop}
    /\ UNCHANGED <<ctlVars, nodes, simVars, nextRafId, frameLog, frames, hostVars>>

\* the callbacks of a refresh in the order they were requested
RECURSIVE InRequestOrder(_)
InRequestOrder(callbacks) ==
    IF callbacks = {} THEN << >>
    ELSE LET first == CHOOSE cb \in callbacks : \A o \in callbacks : cb.id <= o.id
         IN  <<first>> \o InRequestOrder(callbacks \ {first})

LogEntry(op, loop) == [op |-> op, loop |-> loop, afterTeardown |-> loop \in tornDown]

\* one call of animate: a simulate tick, a render pass, the next request
Animate(cb, st) ==
    [ nodes |-> SimulateNodes(st.nodes, connections, st.alpha, rendered.draggedNode),
      alpha |-> CoolAlpha(st.alpha),
      ticks |-> st.ticks + 1,
      log |-> st.log \o <<LogEntry("simulate", cb.loop), LogEntry("render", cb.loop)>>,
      callbacks |-> RequestAnimationFrame(st.callbacks, st.nextRafId, cb.loop),
      nextRafId |-> st.nextRafId + 1 ]

RECURSIVE RunCallbacks(_, _)
RunCallbacks(queue, st) ==
    IF queue = << >> THEN st ELSE RunCallbacks(Tail(queue), Animate(Head(queue), st))

\* a display refresh: the browser runs every callback requested before it
Frame ==
    /\ frames < MaxFrames
    /\ Representable(nodes)
    /\ LET st == RunCallbacks(InRequestOrder(rafCallbacks),
                              [nodes |-> nodes, alpha |-> alpha, ticks |-> ticks,
                               log |-> << >>, callbacks |-> {}, nextRafId |-> nextRafId])
       IN  /\ nodes' = st.nodes
           /\ alpha' = st.alpha
           /\ ticks' = st.ticks
           /\ frameLog' = st.log
           /\ rafCallbacks' = st.callbacks
           /\ nextRafId' = st.nextRafId
    /\ simCall' = rendered.draggedNode
    /\ frames' = frames + 1
    /\ UNCHANGED <<ctlVars, connections, effect, tornDown, hostVars>>

NextLoop == DepsChange \/ Unmount \/ Frame

SpecLoop == InitLoop /\ [][NextLoop]_vars

\* C2: at most one render loop is alive, a display refresh runs exactly one
\* simulate tick followed by one render pass, and no frame of a loop runs
\* after the loop has been torn down
C2OneLoopAlive ==
    /\ Cardinality({cb.loop : cb \in rafCallbacks}) <= 1
    /\ Len(frameLog) <= 2
    /\ \A k \in 1..Len(frameLog) : ~frameLog[k].afterTeardown

----------------------------------------------------------------------------
(* Hit-testing and the camera transform on their own: getNodeAtPosition     *)
(* applied to fixed node positions under fixed cameras                      *)

\* node arrays with nodes apart, within each other's pick radius, coincident
HitNodeSets ==
    { << >>,
      InitNodes,
      << Node("a", 0, 0, 0, 0), Node("b", 5 * Q, 0, 0, 0) >>,
      << Node("a", 0, 0, 0, 0), Node("b", 0, 0, 0, 0), Node("c", 12 * Q, 0, 0, 0) >> }

\* cameras: zoom 0.5, 1, 2 and 3, panned or not, on either surface size
HitCameras ==
    { [InitCanvasState EXCEPT !.zoom = z, !.pan = pn, !.canvasSize = size] :
        z \in {ZS \div 2, ZS, 2 * ZS, 3 * ZS},
        pn \in {[x |-> 0, y |-> 0], [x |-> 30, y |-> -10]},
        size \in Sizes }

\* pointer positions (clientX, clientY) around the centre of the large surface
HitPointers ==
    { [x |-> 410, y |-> 320], [x |-> 415, y |-> 320], [x |-> 422, y |-> 320],
      [x |-> 420, y |-> 330], [x |-> 430, y |-> 330], [x |-> 450, y |-> 350] }

InitGeom ==
    /\ nodes \in HitNodeSets
    /\ renderedNodes = nodes
    /\ canvasState \in HitCameras
    /\ rendered = canvasState
    /\ hoveredNode = Null
    /\ selectedNode = Null
    /\ calls = << >>
    /\ ev = Event("mount", 0, 0, Null, FALSE, 0)
    /\ panRun = NoRun
    /\ pending = 0
    /\ events = 0
    /\ alpha = BaseAlpha
    /\ connections = << >>
    /\ ticks = 0
    /\ simCall = Null
    /\ rafCallbacks = {}
    /\ nextRafId = 1
    /\ effect = NoEffect
    /\ tornDown = {}
    /\ frameLog = << >>
    /\ frames = 0
    /\ HostIdle

\* getNodeAtPosition(clientX, clientY, nodes); ev records the pointer and
\* the node returned
HitTest(p) ==
    /\ ev' = Event("hittest", p.x, p.y,
                   GetNodeAtPosition(p.x, p.y, renderedNodes, rendered), FALSE, 0)
    /\ calls' = << >>
    /\ UNCHANGED <<canvasState, rendered, hoveredNode, nodes, renderedNodes,
                   selectedNode, panRun, pending, events, simVars, loopVars, hostVars>>

HitTestStep == \E p \in HitPointers : HitTest(p)

\* world points (in 1/Q world units) and surface points (in 1/Q pixels)
WorldPoints ==
    { [x |-> 0, y |-> 0], [x |-> 5, y |-> -3],
      [x |-> 20 * Q + 7, y |-> 10 * Q], [x |-> -123 * Q - 456, y |-> 77] }
SurfacePoints ==
    { [x |-> 400 * Q, y |-> 300 * Q], [x |-> 415 * Q, y |-> 320 * Q + 1],
      [x |-> 5, y |-> 7], [x |-> 800 * Q - 1, y |-> 1] }

\* the renderer's projection without the pan
ToScreenNoPan(w, cam) ==
    [x |-> (cam.canvasSize.width \div 2) * Q + RoundDiv(cam.zoom * w.x, ZS),
     y |-> (cam.canvasSize.height \div 2) * Q + RoundDiv(cam.zoom * w.y, ZS)]

\* translate(width / 2 + pan.x, height / 2 + pan.y); scale(zoom, zoom):
\* the surface point (in 1/Q pixels) a world point is drawn at
ToScreen(w, cam) ==
    [x |-> ((cam.canvasSize.width \div 2) + cam.pan.x) * Q + RoundDiv(cam.zoom * w.x, ZS),
     y |-> ((cam.canvasSize.height \div 2) + cam.pan.y) * Q + RoundDiv(cam.zoom * w.y, ZS)]

\* (screen - rect - size / 2 - pan) / zoom for a surface point screen - rect
\* given in 1/Q pixels
ToWorld(sp, cam) ==
    [x |-> RoundDiv((sp.x - ((cam.canvasSize.width \div 2) + cam.pan.x) * Q) * ZS,
                    cam.zoom),
     y |-> RoundDiv((sp.y - ((cam.canvasSize.height \div 2) + cam.pan.y) * Q) * ZS,
                    cam.zoom)]

\* a world point is projected and converted back; ev records the point,
\* calls the two results
WorldRoundTrip(w) ==
    LET sp == ToScreen(w, rendered)
        back == ToWorld(sp, rendered)
    IN  /\ ev' = Event("toWorld(toScreen)", w.x, w.y, Null, FALSE, 0)
        /\ calls' = << Call("toScreen", Null, sp.x, sp.y),
                       Call("toWorld", Null, back.x, back.y) >>
        /\ UNCHANGED <<canvasState, rendered, hoveredNode, nodes, renderedNodes,
                       selectedNode, panRun, pending, events, simVars, loopVars, hostVars>>

\* a surface point is converted to world space and projected back
ScreenRoundTrip(sp) ==
    LET w == ToWorld(sp, rendered)
        back == ToScreen(w, rendered)
    IN  /\ ev' = Event("toScreen(toWorld)", sp.x, sp.y, Null, FALSE, 0)
        /\ calls' = << Call("toWorld", Null, w.x, w.y),
                       Call("toScreen", Null, back.x, back.y) >>
        /\ UNCHANGED <<canvasState, rendered, hoveredNode, nodes, renderedNodes,
                       selectedNode, panRun, pending, events, simVars, loopVars, hostVars>>

WorldRoundTripStep == \E w \in WorldPoints : WorldRoundTrip(w)
ScreenRoundTripStep == \E sp \in SurfacePoints : ScreenRoundTrip(sp)

NextGeom == HitTestStep \/ WorldRoundTripStep \/ ScreenRoundTripStep

SpecGeom == InitGeom /\ [][NextGeom]_vars

\* the world position of the pointer of the last hit-test
PointerWorld == [x |-> ToWorldX(ev.x, rendered), y |-> ToWorldY(ev.y, rendered)]
\* node i lies at the pointer's world position
AtPointer(i) == nodes[i].x = PointerWorld.x /\ nodes[i].y = PointerWorld.y
\* node i is more than the pick radius away from the pointer
BeyondPick(i) ==
    \/ Abs(nodes[i].x - PointerWorld.x) > PickRadius * Q
    \/ Abs(nodes[i].y - PointerWorld.y) > PickRadius * Q
    \/ (nodes[i].x - PointerWorld.x) * (nodes[i].x - PointerWorld.x)
         + (nodes[i].y - PointerWorld.y) * (nodes[i].y - PointerWorld.y)
         > (PickRadius * Q) * (PickRadius * Q)
\* the squared distance of node i, which is within the pick radius
DistanceSq(i) ==
    (nodes[i].x - PointerWorld.x) * (nodes[i].x - PointerWorld.x)
      + (nodes[i].y - PointerWorld.y) * (nodes[i].y - PointerWorld.y)

\* C16: a pointer at the exact world coordinate of a node hits that node,
\* also when other nodes lie within the pick radius of the coordinate (a
\* node sharing its coordinate with another node is left out)
C16HitAtNodeCoordinate ==
    ev.type = "hittest" =>
        \A i \in 1..Len(nodes) :
            (AtPointer(i) /\ \A j \in 1..Len(nodes) : AtPointer(j) => j = i) =>
                ev.hit = nodes[i].id

\* C17: of the nodes within the pick radius the hit-test returns the
\* nearest, the first in array order among the nearest
C17HitIsNearest ==
    (ev.type = "hittest" /\ ev.hit # Null) =>
        \E i \in 1..Len(nodes) :
            /\ nodes[i].id = ev.hit
            /\ ~BeyondPick(i)
            /\ \A j \in 1..Len(nodes) :
                  ~BeyondPick(j) =>
                      \/ DistanceSq(i) < DistanceSq(j)
                      \/ DistanceSq(i) = DistanceSq(j) /\ i <= j

\* C18: the hit-test returns no node when every node is more than 12 world
\* units from the pointer, and a node it returns is within 12 world units
C18HitWithinRadius ==
    ev.type = "hittest" =>
        /\ (\A i \in 1..Len(nodes) : BeyondPick(i)) => ev.hit = Null
        /\ ev.hit # Null =>
              \E i \in 1..Len(nodes) : nodes[i].id = ev.hit /\ ~BeyondPick(i)

\* a hit-test has returned nothing with a node inside the square around the
\* pointer but outside the circle
C18Witness ==
    /\ ev.type = "hittest" /\ ev.hit = Null
    /\ \E i \in 1..Len(nodes) :
          /\ Abs(nodes[i].x - PointerWorld.x) < PickRadius * Q
          /\ Abs(nodes[i].y - PointerWorld.y) < PickRadius * Q
          /\ BeyondPick(i)

\* the rounding of the two conversions: half a unit magnified by the zoom
\* (screen) or by its inverse (world), and half a unit more
WorldTolerance == 1 + ZS \div (2 * ZoomMin)
ScreenTolerance == 1 + ZoomMax \div (2 * ZS)

\* C19 as stated: the two conversions are exact inverses of each other
C19ExactInverse ==
    (ev.type \in {"toWorld(toScreen)", "toScreen(toWorld)"}) =>
        calls[2].x = ev.x /\ calls[2].y = ev.y

\* C19: converting a world point to the surface and back, or a surface point
\* to world space and back, gives the point again up to the rounding of the
\* two conversions, under every camera
C19RoundTripWithinRounding ==
    /\ ev.type = "toWorld(toScreen)" =>
          /\ Abs(calls[2].x - ev.x) <= WorldTolerance
          /\ Abs(calls[2].y - ev.y) <= WorldTolerance
    /\ ev.type = "toScreen(toWorld)" =>
          /\ Abs(calls[2].x - ev.x) <= ScreenTolerance
          /\ Abs(calls[2].y - ev.y) <= ScreenTolerance

\* a world point has come back displaced by rounding under a panned camera
C19Witness ==
    /\ ev.type = "toWorld(toScreen)"
    /\ calls[2].x # ev.x
    /\ rendered.pan # [x |-> 0, y |-> 0]
    /\ rendered.zoom # ZS

----------------------------------------------------------------------------
(* The cooling of the physics engine: simulate ticks on no node or on one   *)
(* isolated node, with no call that energizes                               *)

\* no node, one node at rest at the origin, one moving node off centre
DecayNodeSets ==
    { << >>,
      << Node("a", 0, 0, 0, 0) >>,
      << Node("a", 300 * Q, -200 * Q, 2 * VQ, 0) >> }

\* no connection, or one whose target is not in the graph
DecayConnectionSets == { << >>, << Conn("a", "z", (50 * SQ) \div 100) >> }

InitDecay ==
    /\ nodes \in DecayNodeSets
    /\ connections \in DecayConnectionSets
    /\ alpha = BaseAlpha
    /\ ticks = 0
    /\ simCall = Null
    /\ events = 0
    /\ canvasState = InitCanvasState
    /\ rendered = InitCanvasState
    /\ hoveredNode = Null
    /\ renderedNodes = nodes
    /\ selectedNode = Null
    /\ calls = << >>
    /\ ev = Event("mount", 0, 0, Null, FALSE, 0)
    /\ panRun = NoRun
    /\ pending = 0
    /\ rafCallbacks = {}
    /\ nextRafId = 1
    /\ effect = NoEffect
    /\ tornDown = {}
    /\ frameLog = << >>
    /\ frames = 0
    /\ HostIdle

\* graphSimulation.simulate(nodes, connections, undefined)
DecayTick ==
    /\ ticks < MaxDecayTicks
    /\ Representable(nodes)
    /\ nodes' = SimulateNodes(nodes, connections, alpha, Null)
    /\ alpha' = CoolAlpha(alpha)
    /\ ticks' = ticks + 1
    /\ simCall' = Null
    /\ UNCHANGED <<connections, ctlVars, loopVars, hostVars>>

NextDecay == DecayTick

SpecDecay == InitDecay /\ [][NextDecay]_vars

\* C20: with no node or one isolated node and no energize call, alpha never
\* grows from one tick to the next, is at most minAlpha once MaxDecayTicks
\* ticks have run, and stays at most minAlpha once it is
C20EnergyDecays ==
    [][(ticks' = ticks + 1) =>
          /\ alpha' <= alpha
          /\ alpha <= MinAlpha => alpha' <= MinAlpha
          /\ ticks' = MaxDecayTicks => alpha' <= MinAlpha]_vars

\* alpha has cooled down to minAlpha on a single node that has moved
C20Witness ==
    /\ alpha = MinAlpha
    /\ ticks = MaxDecayTicks
    /\ Len(nodes) = 1
    /\ nodes[1].x # 0 /\ nodes[1].x # 300 * Q

----------------------------------------------------------------------------
(* The renderer: GraphRenderer, and a frame of GraphCanvas.animate that    *)
(* runs a simulate tick and then a render pass                             *)

MaxRenderFrames == 2

\* A string is a sequence of characters.
\* c.toLowerCase() on the characters used
Lower(c) ==
    CASE c = "A" -> "a" [] c = "B" -> "b" [] c = "C" -> "c" [] c = "D" -> "d"
      [] c = "I" -> "i" [] OTHER -> c
ToLowerCase(str) == [k \in 1..Len(str) |-> Lower(str[k])]
\* str.includes(sub)
Includes(str, sub) ==
    \E k \in 0..(Len(str) - Len(sub)) : SubSeq(str, k + 1, k + Len(sub)) = sub

\* node.label of the nodes drawn
NodeLabel(id) ==
    CASE id = "a" -> <<"A", "I">>
      [] id = "b" -> <<"B", "r", "a", "i", "n">>
      [] OTHER -> <<"C", "a", "t">>
SearchQueries == { << >>, <<"a", "i">>, <<"B">>, <<"x">> }

\* a Connection with its isSurprising flag
RenderConn(source, target, strength, isSurprising) ==
    [source |-> source, target |-> target, strength |-> strength,
     isSurprising |-> isSurprising]
RenderConnectionSets ==
    { << >>,
      << RenderConn("a", "b", (80 * SQ) \div 100, FALSE),
         RenderConn("b", "a", (50 * SQ) \div 100, TRUE),
         RenderConn("a", "z", SQ, FALSE) >>,
      << RenderConn("b", "a", 0, FALSE),
         RenderConn("z", "a", (50 * SQ) \div 100, TRUE) >> }
FilterStrengths == {0, (50 * SQ) \div 100, (80 * SQ) \div 100}
\* zoom factors 1, 1.5 and 1.55
RenderZooms == {ZS, (3 * ZS) \div 2, (3 * ZS) \div 2 + 1}

\* graph.connections.filter(c => c.strength >= filterStrength)
FilteredConnections(conns, threshold) ==
    SelectSeq(conns, LAMBDA c : c.strength >= threshold)

\* renderConnections skipping a connection also when it is at the threshold
BelowOrAtFilter(strength, threshold) == strength <= threshold

\* if (conn.strength < filterStrength) return
BelowFilter(strength, threshold) == strength < threshold

\* renderConnections drawing a connection with a missing endpoint from the origin
EndpointsAssumed(ns, conn) == TRUE

\* if (source && target)
EndpointsFound(ns, conn) ==
    FindIndex(ns, conn.source) # 0 /\ FindIndex(ns, conn.target) # 0

\* the coordinates of the node with the given id, (0, 0) for a missing node
EndpointAt(ns, id) ==
    LET i == FindIndex(ns, id)
    IN  IF i = 0 THEN [x |-> 0, y |-> 0]
        ELSE [x |-> OrZero(ns[i].x), y |-> OrZero(ns[i].y)]

\* the stroke of one connection
Line(ns, conn, dark) ==
    [op |-> "line", source |-> conn.source, target |-> conn.target,
     from |-> EndpointAt(ns, conn.source), to |-> EndpointAt(ns, conn.target),
     strokeStyle |-> IF conn.isSurprising
                     THEN (IF dark THEN "#fbbf24" ELSE "#f59e0b")
                     ELSE (IF dark THEN "#4b5563" ELSE "#d1d5db"),
     lineWidth |-> IF conn.isSurprising THEN 2 ELSE 1,
     dashed |-> conn.isSurprising,
     globalAlpha |-> conn.strength]

\* renderConnections(connections, nodes, filterStrength): the strokes, in order
RenderConnections(conns, ns, threshold, dark) ==
    LET stroked == SelectSeq(conns, LAMBDA c : /\ ~BelowFilter(c.strength, threshold)
                                               /\ EndpointsFound(ns, c))
    IN  [k \in 1..Len(stroked) |-> Line(ns, stroked[k], dark)]

\* searchQuery && node.label.toLowerCase().includes(searchQuery.toLowerCase())
IsSearchMatch(query, label) ==
    query # << >> /\ Includes(ToLowerCase(label), ToLowerCase(query))

\* the fillStyle of a node
FillStyle(isSearchMatch, isSelected, isHovered, dark) ==
    IF isSearchMatch THEN (IF dark THEN "#3b82f6" ELSE "#2563eb")
    ELSE IF isSelected THEN (IF dark THEN "#8b5cf6" ELSE "#7c3aed")
    ELSE (IF dark THEN "#6366f1" ELSE "#4f46e5")

\* the label condition without the hovered node
LabelShownUnlessHovered(isHovered, isSelected, isSearchMatch, zoom) ==
    isSelected \/ isSearchMatch \/ 2 * zoom > 3 * ZS

\* isHovered || isSelected || isSearchMatch || zoom > 1.5
LabelShown(isHovered, isSelected, isSearchMatch, zoom) ==
    isHovered \/ isSelected \/ isSearchMatch \/ 2 * zoom > 3 * ZS

\* the circle, outline and label of one node
Circle(node, hoveredNodeId, selectedNodeId, query, zoom, dark) ==
    LET isHovered == hoveredNodeId = node.id
        isSelected == selectedNodeId = node.id
        isSearchMatch == IsSearchMatch(query, NodeLabel(node.id))
    IN  [op |-> "node", id |-> node.id,
         x |-> OrZero(node.x), y |-> OrZero(node.y),
         radius |-> IF isHovered THEN 12 ELSE 10,
         fillStyle |-> FillStyle(isSearchMatch, isSelected, isHovered, dark),
         outline |-> IF isHovered \/ isSelected THEN 2 ELSE 0,
         label |-> LabelShown(isHovered, isSelected, isSearchMatch, zoom)]

\* renderNodes sorting the array so that the selected node is drawn last
RenderNodesSelectedLast(ns, hoveredNodeId, selectedNodeId, query, zoom, dark) ==
    LET rest == SelectSeq(ns, LAMBDA n : n.id # selectedNodeId)
        last == SelectSeq(ns, LAMBDA n : n.id = selectedNodeId)
        sorted == rest \o last
    IN  [drawn |-> [k \in 1..Len(sorted) |->
                       Circle(sorted[k], hoveredNodeId, selectedNodeId, query, zoom, dark)],
         nodes |-> sorted]

\* renderNodes(nodes, hoveredNodeId, selectedNodeId, searchQuery, zoom): what
\* it draws, in order, and the node array after the call
RenderNodes(ns, hoveredNodeId, selectedNodeId, query, zoom, dark) ==
    [drawn |-> [k \in 1..Len(ns) |->
                   Circle(ns[k], hoveredNodeId, selectedNodeId, query, zoom, dark)],
     nodes |-> ns]

\* the render pass without restoreTransform
RenderPassNoRestore(ns, conns, threshold, hoveredNodeId, selectedNodeId, query, cam, dark) ==
    LET drawnNodes == RenderNodes(ns, hoveredNodeId, selectedNodeId, query, cam.zoom, dark)
    IN  [drawn |-> << [op |-> "clear", width |-> cam.canvasSize.width,
                       height |-> cam.canvasSize.height],
                      [op |-> "transform",
                       x |-> cam.canvasSize.width \div 2 + cam.pan.x,
                       y |-> cam.canvasSize.height \div 2 + cam.pan.y,
                       scale |-> cam.zoom] >>
                   \o RenderConnections(FilteredConnections(conns, threshold), ns,
                                        threshold, dark)
                   \o drawnNodes.drawn,
         nodes |-> drawnNodes.nodes]

\* clear, setupTransform, renderConnections, renderNodes, restoreTransform as
\* animate calls them: the canvas calls, and the node array after the pass
RenderPass(ns, conns, threshold, hoveredNodeId, selectedNodeId, query, cam, dark) ==
    LET drawnNodes == RenderNodes(ns, hoveredNodeId, selectedNodeId, query, cam.zoom, dark)
    IN  [drawn |-> << [op |-> "clear", width |-> cam.canvasSize.width,
                       height |-> cam.canvasSize.height],
                      [op |-> "transform",
                       x |-> cam.canvasSize.width \div 2 + cam.pan.x,
                       y |-> cam.canvasSize.height \div 2 + cam.pan.y,
                       scale |-> cam.zoom] >>
                   \o RenderConnections(FilteredConnections(conns, threshold), ns,
                                        threshold, dark)
                   \o drawnNodes.drawn
                   \o << [op |-> "restore"] >>,
         nodes |-> drawnNodes.nodes]

InitRender ==
    /\ nodes \in SimNodeSets
    /\ connections \in RenderConnectionSets
    /\ filterStrength \in FilterStrengths
    /\ searchQuery \in SearchQueries
    /\ isDark \in BOOLEAN
    /\ hoveredNode \in {Null, "a"}
    /\ selectedNode \in {Null, "a", "b"}
    /\ \E z \in RenderZooms : canvasState = [InitCanvasState EXCEPT !.zoom = z]
    /\ rendered = canvasState
    /\ renderedNodes = nodes
    /\ alpha = BaseAlpha
    /\ ticks = 0
    /\ simCall = Null
    /\ events = 0
    /\ calls = << >>
    /\ ev = Event("mount", 0, 0, Null, FALSE, 0)
    /\ panRun = NoRun
    /\ pending = 0
    /\ rafCallbacks = {}
    /\ nextRafId = 1
    /\ effect = NoEffect
    /\ tornDown = {}
    /\ frameLog = << >>
    /\ frames = 0
    /\ apiEnv = NoEnv
    /\ apiClient = SetConfig(InitializeFromEnv(NoEnv), HookInitialConfig, FALSE)
    /\ apiHook = Hook(HookInitialConfig, FALSE, TRUE, TRUE)

\* animate giving simulate the connections the filter lets through
TickConnectionsFiltered(conns, threshold) == FilteredConnections(conns, threshold)

\* the connections animate gives simulate: the connections prop, which is
\* graph.connections
TickConnections(conns, threshold) == conns

\* one call of animate: graphSimulation.simulate, then the render pass
AnimateFrame ==
    /\ frames < MaxRenderFrames
    /\ Representable(nodes)
    /\ LET pass == RenderPass(
                       SimulateNodes(nodes, TickConnections(connections, filterStrength),
                                     alpha, rendered.draggedNode),
                       connections, filterStrength, hoveredNode, selectedNode,
                       searchQuery, RendererCamera, isDark)
       IN  /\ nodes' = pass.nodes
           /\ frameLog' = pass.drawn
    /\ alpha' = CoolAlpha(alpha)
    /\ ticks' = ticks + 1
    /\ simCall' = rendered.draggedNode
    /\ frames' = frames + 1
    /\ UNCHANGED <<ctlVars, connections, rafCallbacks, nextRafId, effect, tornDown,
                   hostVars>>

NextRender == AnimateFrame

SpecRender == InitRender /\ [][NextRender]_vars

\* the connections stroked by the last render pass
Strokes == SelectSeq(frameLog, LAMBDA e : e.op = "line")
\* the circles drawn by the last render pass
Circles == SelectSeq(frameLog, LAMBDA e : e.op = "node")
HasNode(id) == \E i \in 1..Len(nodes) : nodes[i].id = id

\* C21: once a render pass has run, the connections it stroked are, in order,
\* the connections whose strength is at least the filter threshold and whose
\* two endpoints are nodes: one at the threshold is stroked, one below is not
C21ConnectionFilter ==
    frames > 0 =>
        LET shown == SelectSeq(connections,
                               LAMBDA c : /\ c.strength >= filterStrength
                                          /\ HasNode(c.source) /\ HasNode(c.target))
        IN  /\ Len(Strokes) = Len(shown)
            /\ \A k \in 1..Len(shown) :
                  /\ Strokes[k].source = shown[k].source
                  /\ Strokes[k].target = shown[k].target
                  /\ Strokes[k].globalAlpha = shown[k].strength

\* a pass has stroked a connection at a positive threshold and left out one
\* below the threshold
C21Witness ==
    /\ frames > 0
    /\ filterStrength > 0
    /\ \E k \in 1..Len(Strokes) : Strokes[k].globalAlpha = filterStrength
    /\ \E k \in 1..Len(connections) :
          /\ connections[k].strength < filterStrength
          /\ HasNode(connections[k].source) /\ HasNode(connections[k].target)

\* the connections whose source and target are both nodes
Attached(conns) ==
    SelectSeq(conns, LAMBDA c : HasNode(c.source) /\ HasNode(c.target))

\* C22: a connection whose source or target is no node is skipped by the
\* tick and by the render pass of a frame: the nodes after the frame and the
\* canvas calls of the frame are those of the same frame without it
C22DanglingSkipped ==
    [][(frames' = frames + 1) =>
          LET ticked == SimulateNodes(nodes, Attached(connections), alpha,
                                      rendered.draggedNode)
          IN  /\ nodes' = ticked
              /\ frameLog' = RenderPass(ticked, Attached(connections), filterStrength,
                                        hoveredNode, selectedNode, searchQuery,
                                        RendererCamera, isDark).drawn]_vars

\* a frame has run with a connection to a missing node: another connection
\* was stroked, every node was drawn and the nodes have velocities
C22Witness ==
    /\ frames > 0
    /\ Len(Attached(connections)) < Len(connections)
    /\ Len(Strokes) > 0
    /\ Len(Circles) = Len(nodes)
    /\ \E i \in 1..Len(nodes) : nodes[i].vx # 0

\* the flags of the node of a drawn circle
Hovered(c) == hoveredNode = c.id
Selected(c) == selectedNode = c.id
SearchMatch(c) == IsSearchMatch(searchQuery, NodeLabel(c.id))
\* the fill colours of the search-match, selected and default categories
SearchFill == FillStyle(TRUE, FALSE, FALSE, isDark)
SelectedFill == FillStyle(FALSE, TRUE, FALSE, isDark)
DefaultFill == FillStyle(FALSE, FALSE, FALSE, isDark)

\* C26: the fill of every node drawn is that of the highest-ranking category
\* among search-match, selected, hovered and default that applies to it; a
\* node that is only hovered has a fill of its own, not the default fill
C26FillPrecedence ==
    frames > 0 =>
        \A k \in 1..Len(Circles) :
            LET c == Circles[k]
            IN  /\ SearchMatch(c) => c.fillStyle = SearchFill
                /\ (~SearchMatch(c) /\ Selected(c)) => c.fillStyle = SelectedFill
                /\ (~SearchMatch(c) /\ ~Selected(c) /\ Hovered(c)) =>
                       c.fillStyle \notin {SearchFill, SelectedFill, DefaultFill}
                /\ (~SearchMatch(c) /\ ~Selected(c) /\ ~Hovered(c)) =>
                       c.fillStyle = DefaultFill

\* C27: the label of a node is drawn iff the node is hovered, selected or
\* search-matching or the zoom is above 1.5, no node matches the empty search
\* string, the radius is 12 for the hovered node and 10 for the others, and
\* the 2px outline is drawn iff the node is hovered or selected
C27LabelRadiusOutline ==
    frames > 0 =>
        \A k \in 1..Len(Circles) :
            LET c == Circles[k]
            IN  /\ c.label <=> (Hovered(c) \/ Selected(c) \/ SearchMatch(c)
                                  \/ 2 * rendered.zoom > 3 * ZS)
                /\ searchQuery = << >> =>
                      /\ ~SearchMatch(c)
                      /\ c.fillStyle # SearchFill
                      /\ c.label <=> (Hovered(c) \/ Selected(c) \/ 2 * rendered.zoom > 3 * ZS)
                /\ c.radius = (IF Hovered(c) THEN 12 ELSE 10)
                /\ c.outline = (IF Hovered(c) \/ Selected(c) THEN 2 ELSE 0)

\* at zoom 1.5 with an empty search string a pass has drawn the hovered node
\* with its label, radius 12 and the outline, and another node with radius 10
\* and neither label nor outline
C27Witness ==
    /\ frames > 0
    /\ searchQuery = << >>
    /\ 2 * rendered.zoom = 3 * ZS
    /\ \E k \in 1..Len(Circles) :
          /\ Hovered(Circles[k]) /\ ~Selected(Circles[k])
          /\ Circles[k].label /\ Circles[k].radius = 12 /\ Circles[k].outline = 2
    /\ \E k \in 1..Len(Circles) :
          /\ ~Circles[k].label /\ Circles[k].radius = 10 /\ Circles[k].outline = 0

\* C28: a render pass changes none of its inputs: the nodes after a frame are
\* the nodes its simulate tick left, in the same order, and the connections,
\* the camera and the interaction state are those before the frame
C28RenderPassReadsOnly ==
    [][(frames' = frames + 1) =>
          /\ nodes' = SimulateNodes(nodes, connections, alpha, rendered.draggedNode)
          /\ connections' = connections
          /\ canvasState' = canvasState /\ rendered' = rendered
          /\ hoveredNode' = hoveredNode /\ selectedNode' = selectedNode
          /\ filterStrength' = filterStrength /\ searchQuery' = searchQuery]_vars

\* a pass has stroked a connection and drawn three nodes, the selected node
\* not being the last of them
C28Witness ==
    /\ frames > 0
    /\ Len(Strokes) > 0
    /\ Len(Circles) = 3
    /\ selectedNode = Circles[1].id

\* the depth of the transform stack after the canvas calls of a log, from
\* depth 0: setupTransform saves, restoreTransform restores
RECURSIVE StackDepth(_)
StackDepth(log) ==
    IF log = << >> THEN 0
    ELSE LET e == log[Len(log)]
             before == StackDepth(SubSeq(log, 1, Len(log) - 1))
         IN  IF e.op = "transform" THEN before + 1
             ELSE IF e.op = "restore" THEN before - 1
             ELSE before

\* C33: the canvas calls of a frame are clear, then setupTransform, then
\* every connection, then every node, then restoreTransform; what is drawn
\* shows the nodes where the tick of the frame left them; and the transform
\* stack is as deep after the frame as before it
C33FrameSequencing ==
    [][(frames' = frames + 1) =>
          LET log == frameLog'
              n == Len(log)
          IN  /\ n >= 3
              /\ log[1].op = "clear"
              /\ log[2].op = "transform"
              /\ log[n].op = "restore"
              /\ \A k \in 3..(n - 1) : log[k].op \in {"line", "node"}
              /\ \A k, m \in 3..(n - 1) :
                    (log[k].op = "line" /\ log[m].op = "node") => k < m
              /\ \A k \in 1..n : StackDepth(SubSeq(log, 1, k)) >= 0
              /\ StackDepth(log) = 0
              /\ LET circles == SelectSeq(log, LAMBDA e : e.op = "node")
                 IN  /\ Len(circles) = Len(nodes')
                     /\ \A k \in 1..Len(circles) :
                           /\ circles[k].id = nodes'[k].id
                           /\ circles[k].x = OrZero(nodes'[k].x)
                           /\ circles[k].y = OrZero(nodes'[k].y)]_vars

\* a frame has stroked a connection and drawn two nodes or more, one of
\* which its tick had moved
C33Witness ==
    /\ frames > 0
    /\ Len(Strokes) > 0
    /\ Len(Circles) >= 2
    /\ \E k \in 1..Len(Circles), ns \in SimNodeSets :
          /\ Len(ns) = Len(Circles)
          /\ ns[k].id = Circles[k].id
          /\ Circles[k].x # ns[k].x

----------------------------------------------------------------------------
(* The forces of one tick on degenerate and on ordinary geometry *)

\* two nodes: coincident at the origin, coincident elsewhere and moving,
\* 0.6 apart, 1 apart, 50 apart; and one node near the vertical axis
ForceNodeSets ==
    { << Node("a", 0, 0, 0, 0), Node("b", 0, 0, 0, 0) >>,
      << Node("a", 10 * Q, 10 * Q, VQ, 0), Node("b", 10 * Q, 10 * Q, 0, -VQ) >>,
      << Node("a", 0, 0, 0, 0), Node("b", (6 * Q) \div 10, 0, 0, 0) >>,
      << Node("a", 0, 0, 0, 0), Node("b", 0, Q, 0, 0) >>,
      << Node("a", 0, 0, 0, 0), Node("b", 30 * Q, 40 * Q, 0, 0) >>,
      << Node("a", Q \div 10, 30 * Q, 0, 0) >> }
ForceConnectionSets ==
    { << >>,
      << Conn("a", "b", 0) >>,
      << Conn("a", "b", (50 * SQ) \div 100) >>,
      << Conn("b", "a", SQ) >> }

InitForce ==
    /\ nodes \in ForceNodeSets
    /\ connections \in ForceConnectionSets
    /\ alpha = BaseAlpha
    /\ ticks = 0
    /\ simCall = Null
    /\ events = 0
    /\ canvasState = InitCanvasState
    /\ rendered = InitCanvasState
    /\ hoveredNode = Null
    /\ renderedNodes = nodes
    /\ selectedNode = Null
    /\ calls = << >>
    /\ ev = Event("mount", 0, 0, Null, FALSE, 0)
    /\ panRun = NoRun
    /\ pending = 0
    /\ rafCallbacks = {}
    /\ nextRafId = 1
    /\ effect = NoEffect
    /\ tornDown = {}
    /\ frameLog = << >>
    /\ frames = 0
    /\ HostIdle

NextForce == SimulateTick

SpecForce == InitForce /\ [][NextForce]_vars

AllFinite(ns) ==
    \A i \in 1..Len(ns) :
        IsFinite(ns[i].x) /\ IsFinite(ns[i].y) /\ IsFinite(ns[i].vx) /\ IsFinite(ns[i].vy)

\* C23: a simulate tick leaves every position and velocity component of
\* every node a finite number, in particular a tick on two nodes that
\* coincide at (0, 0) with no connection
C23CoincidentFinite ==
    [][(ticks' = ticks + 1) => AllFinite(nodes')]_vars

\* a tick has run on two unconnected nodes that both are at (0, 0), where the
\* tick leaves them
C23Witness ==
    /\ ticks >= 1
    /\ connections = << >>
    /\ Len(nodes) = 2
    /\ nodes[1].x = 0 /\ nodes[1].y = 0 /\ nodes[2].x = 0 /\ nodes[2].y = 0
    /\ AllFinite(nodes)

\* C24: the distance a tick divides by is max(d, 1) for every pair of nodes,
\* so that the repulsion it applies to a pair is at most repulsion * alpha
C24DistanceFlooredToOne ==
    [][(ticks' = ticks + 1) =>
          \A i, j \in 1..Len(nodes) :
              i < j =>
                  LET dx == OrZero(nodes[j].x) - OrZero(nodes[i].x)
                      dy == OrZero(nodes[j].y) - OrZero(nodes[i].y)
                  IN  /\ DistOrOne(dx, dy) = Max(Hypot(dx, dy), Q)
                      /\ RepulsionForce(DistOrOne(dx, dy), alpha)
                            <= Repulsion * (VQ \div AQ) * alpha]_vars

\* d * attraction * strength * alpha, as a velocity
ProportionalAttraction(dist, strength, a) ==
    MulDiv(MulDiv(MulDiv(dist, (VQ \div Q) * AttractionPercent, 100), strength, SQ), a, AQ)

\* C25: the attraction a tick applies along a connection with both endpoints
\* present is d * attraction * strength * alpha, and the connections of
\* strength 0 change no velocity: the tick is the tick without them
C25AttractionProportional ==
    [][(ticks' = ticks + 1) =>
          /\ \A k \in 1..Len(connections) :
                LET si == FindIndex(nodes, connections[k].source)
                    ti == FindIndex(nodes, connections[k].target)
                IN  (si # 0 /\ ti # 0) =>
                       LET dist == Hypot(OrZero(nodes[ti].x) - OrZero(nodes[si].x),
                                         OrZero(nodes[ti].y) - OrZero(nodes[si].y))
                       IN  dist >= Q =>
                              AttractionForce(dist, connections[k].strength, alpha)
                                 = ProportionalAttraction(dist, connections[k].strength,
                                                          alpha)
          /\ nodes' = SimulateNodes(nodes,
                                    SelectSeq(connections, LAMBDA c : c.strength # 0),
                                    alpha, simCall')]_vars

\* C34: the forces of a tick use the alpha from before the cooling of the
\* tick; every node but the pinned one moves by the velocity the forces left
\* it and then keeps 0.8 of that velocity, each component set to 0 if it is
\* below 0.0001 in absolute value, so that after the tick each velocity
\* component is 0 or at least 0.0001 in absolute value
C34TickOrdering ==
    [][(ticks' = ticks + 1) =>
          LET forced == ApplyAttractionForces(
                            ApplyRepulsionForces(
                                ApplyCenteringForce(nodes, alpha, simCall'),
                                alpha, simCall'),
                            connections, alpha, simCall')
              Kept(v) == LET d == MulDiv(v, DampingPercent, 100)
                         IN  IF Abs(d) < SnapVelocity THEN 0 ELSE d
          IN  /\ alpha' = Max(MinAlpha, MulDiv(alpha, CoolingPerMille, 1000))
              /\ \A i \in 1..Len(nodes) :
                    nodes[i].id # simCall' =>
                       /\ nodes'[i].x = forced[i].x + MulDiv(forced[i].vx, Q, VQ)
                       /\ nodes'[i].y = forced[i].y + MulDiv(forced[i].vy, Q, VQ)
                       /\ nodes'[i].vx = Kept(forced[i].vx)
                       /\ nodes'[i].vy = Kept(forced[i].vy)
                       /\ nodes'[i].vx = 0 \/ Abs(nodes'[i].vx) >= SnapVelocity
                       /\ nodes'[i].vy = 0 \/ Abs(nodes'[i].vy) >= SnapVelocity]_vars

\* a tick has set the horizontal velocity of a node off the vertical axis to
\* 0 and kept its vertical velocity
C34Witness ==
    /\ ticks = 1
    /\ simCall = Null
    /\ Len(nodes) = 1
    /\ nodes[1].x # 0
    /\ nodes[1].vx = 0
    /\ nodes[1].vy # 0

\* C36: the tick of a frame gives every node the position and velocity
\* that a tick over all connections gives it, whatever the filter threshold
\* of the frame
C36FilterRendersOnly ==
    [][(frames' = frames + 1) =>
          \A threshold \in FilterStrengths :
             filterStrength = threshold =>
                nodes' = SimulateNodes(nodes, connections, alpha, rendered.draggedNode)]_vars

\* the first frame has run with a threshold that hides a connection, and
\* its tick has left the nodes where the hidden connection pulled them
C36Witness ==
    /\ frames = 1
    /\ \E i \in 1..Len(connections) : connections[i].strength < filterStrength
    /\ \E ns \in SimNodeSets :
          /\ nodes = SimulateNodes(ns, connections, BaseAlpha, Null)
          /\ nodes # SimulateNodes(ns, FilteredConnections(connections, filterStrength),
                                   BaseAlpha, Null)

\* C39: closePopup leaves the popup without an anchor, and a popup without
\* an anchor gets one only by a pointer-down that hits a node: no pointer
\* move, pointer-up, wheel, resize or resetView anchors it
C39PopupStaysClosed ==
    [][/\ ev'.type = "closePopup" => ~canvasState'.popupPosition.set
       /\ (~canvasState.popupPosition.set /\ canvasState'.popupPosition.set)
             => (ev'.type = "mousedown" /\ ev'.hit # Null)]_vars

\* a node is selected and still dragged, its popup has been closed, and a
\* pointer move has dragged it on without anchoring the popup
C39Witness ==
    /\ ev.type = "mousemove"
    /\ rendered.draggedNode # Null
    /\ selectedNode = rendered.draggedNode
    /\ calls # << >>
    /\ ~canvasState.popupPosition.set

----------------------------------------------------------------------------
(* Position initialization: graphs that arrive with undefined positions    *)
(* (StorageManager.loadGraph, importGraph), the commit whose effects       *)
(* initialize them and restart the render loop, and the loop's ticks.      *)
(* nodes is graph.nodes as React holds it, renderedNodes the array of the  *)
(* last commit, which the effects and the mounted loop work on.            *)

MaxImports == 2

\* values of Math.random(), in thousandths
RandomDraws == {0, 999}

Unplaced(id) == Node(id, Undefined, Undefined, Undefined, Undefined)
\* graphs given to setGraph
PlaceNodeSets ==
    { << Unplaced("a"), Node("b", 20 * Q, 10 * Q, VQ, 0) >>,
      << Node("a", Undefined, 5 * Q, Undefined, Undefined), Unplaced("b") >>,
      << Node("a", -100 * Q, 0, 0, 0), Node("b", 100 * Q, 0, 2 * VQ, -VQ) >> }

\* Math.random() * extent - extent / 2, for an extent in pixels
RandomWithin(draw, extent) == MulDiv(draw, extent * Q, 1000) - (extent * Q) \div 2

\* initializeNodePositions placing a node only if both coordinates are undefined
InitializeBothUndefined(ns, canvasWidth, canvasHeight, draws) ==
    [i \in 1..Len(ns) |->
        IF ns[i].x = Undefined /\ ns[i].y = Undefined
        THEN [ns[i] EXCEPT !.x = RandomWithin(draws[i].x, canvasWidth),
                           !.y = RandomWithin(draws[i].y, canvasHeight),
                           !.vx = 0, !.vy = 0]
        ELSE ns[i]]

\* initializeNodePositions(nodes, canvasWidth, canvasHeight): the node array
\* after it, draws[i] being the two values Math.random() returns for node i
InitializeNodePositions(ns, canvasWidth, canvasHeight, draws) ==
    [i \in 1..Len(ns) |->
        IF ns[i].x = Undefined \/ ns[i].y = Undefined
        THEN [ns[i] EXCEPT !.x = RandomWithin(draws[i].x, canvasWidth),
                           !.y = RandomWithin(draws[i].y, canvasHeight),
                           !.vx = 0, !.vy = 0]
        ELSE ns[i]]

\* energize without the cap at baseAlpha
EnergizeUncapped(a, amount) == a + amount

\* energize(amount)
Energize(a, amount) == Min(BaseAlpha, a + amount)

\* the node array as a tick reads it: (node.x || 0)
Defaulted(ns) ==
    [i \in 1..Len(ns) |->
        [ns[i] EXCEPT !.x = OrZero(@), !.y = OrZero(@),
                      !.vx = OrZero(@), !.vy = OrZero(@)]]

InitPlace ==
    /\ nodes = << >>
    /\ renderedNodes = << >>
    /\ connections = << >>
    /\ \E size \in Sizes : canvasState = [InitCanvasState EXCEPT !.canvasSize = size]
    /\ rendered = canvasState
    /\ alpha = BaseAlpha
    /\ ticks = 0
    /\ simCall = Null
    /\ events = 0
    /\ pending = 0
    /\ hoveredNode = Null
    /\ selectedNode = Null
    /\ calls = << >>
    /\ ev = Event("mount", 0, 0, Null, FALSE, 0)
    /\ panRun = NoRun
    /\ rafCallbacks = {}
    /\ nextRafId = 1
    /\ effect = NoEffect
    /\ tornDown = {}
    /\ frameLog = << >>
    /\ frames = 0
    /\ HostIdle

\* setGraph(savedGraph) / importGraph(importedGraph): a new graph is held,
\* to be rendered
ImportGraph ==
    /\ events < MaxImports
    /\ \E g \in PlaceNodeSets : nodes' = g
    /\ pending' = 1
    /\ events' = events + 1
    /\ ev' = Event("setGraph", 0, 0, Null, FALSE, 0)
    /\ UNCHANGED <<canvasState, rendered, hoveredNode, renderedNodes, selectedNode,
                   calls, panRun, simVars, loopVars, hostVars>>

\* React commits the render of the new graph and runs the effects whose
\* dependency nodes changed, in the order of their declaration: the
\* initialization effect, then the animation effect with the new array
Commit ==
    /\ pending = 1
    /\ \E draws \in [1..Len(nodes) -> [x : RandomDraws, y : RandomDraws]] :
          nodes' = IF Len(nodes) > 0
                   THEN InitializeNodePositions(nodes, canvasState.canvasSize.width,
                                                canvasState.canvasSize.height, draws)
                   ELSE nodes
    /\ renderedNodes' = nodes'
    /\ alpha' = IF Len(nodes) > 0 THEN Energize(alpha, AQ \div 10) ELSE alpha
    /\ pending' = 0
    /\ ev' = Event("commit", 0, 0, Null, FALSE, 0)
    /\ UNCHANGED <<canvasState, rendered, hoveredNode, selectedNode, calls, panRun,
                   events, connections, ticks, simCall, loopVars, hostVars>>

\* animate of the mounted loop: a simulate tick on the array of its commit,
\* whose node objects the new graph does not share
PlaceTick ==
    /\ ticks < MaxTicks
    /\ Representable(Defaulted(renderedNodes))
    /\ renderedNodes' = SimulateNodes(renderedNodes, connections, alpha,
                                      rendered.draggedNode)
    /\ nodes' = IF pending = 0 THEN renderedNodes' ELSE nodes
    /\ alpha' = CoolAlpha(alpha)
    /\ ticks' = ticks + 1
    /\ simCall' = rendered.draggedNode
    /\ ev' = Event("animate", 0, 0, Null, FALSE, 0)
    /\ UNCHANGED <<canvasState, rendered, hoveredNode, selectedNode, calls, panRun,
                   pending, events, connections, loopVars, hostVars>>

NextPlace == ImportGraph \/ Commit \/ PlaceTick

SpecPlace == InitPlace /\ [][NextPlace]_vars

PositionDefined(n) == n.x # Undefined /\ n.y # Undefined

\* C29: the commit that first shows a node to the engine gives every node
\* whose position is undefined a position within half the surface size
\* around the origin and zero velocity and leaves the other nodes as they
\* are; a tick only ever reads nodes whose position is defined; and the
\* position of every node the engine works on stays defined
C29PositionInitialization ==
    [][/\ (ev'.type = "commit" /\ pending = 1) =>
              /\ Len(nodes') = Len(nodes)
              /\ \A i \in 1..Len(nodes) :
                    IF PositionDefined(nodes[i]) THEN nodes'[i] = nodes[i]
                    ELSE /\ nodes'[i].id = nodes[i].id
                         /\ IsFinite(nodes'[i].x) /\ IsFinite(nodes'[i].y)
                         /\ 2 * Abs(nodes'[i].x) <= canvasState.canvasSize.width * Q
                         /\ 2 * Abs(nodes'[i].y) <= canvasState.canvasSize.height * Q
                         /\ nodes'[i].vx = 0 /\ nodes'[i].vy = 0
       /\ (ticks' = ticks + 1) =>
              \A i \in 1..Len(renderedNodes) : PositionDefined(renderedNodes[i])
       /\ \A i \in 1..Len(renderedNodes') : PositionDefined(renderedNodes'[i])]_vars

\* a commit has placed a node that arrived without a position on the left
\* edge of the surface and left the node that had a position and a velocity
\* as it arrived, and no tick has run yet
C29Witness ==
    /\ ev.type = "commit"
    /\ ticks = 0
    /\ Len(nodes) = 2
    /\ nodes[1].x = -((canvasState.canvasSize.width * Q) \div 2)
    /\ nodes[1].vx = 0
    /\ nodes[2] = Node("b", 20 * Q, 10 * Q, VQ, 0)

----------------------------------------------------------------------------
(* The provider client and useAPIConfig: the module constructs the client  *)
(* from the environment, the hook mounts and pushes its state to the       *)
(* client, the Settings panel changes the state, and the application calls *)
(* the client.  calls holds what the calls so far have reached.            *)

MaxApiEvents == 3

\* the keys a build can find in import.meta.env
ApiEnvKeys ==
    { Env("", "", "", "", NullConfig),
      Env("sk-ant-env", "", "", "", NullConfig),
      Env("", "sk-openai-env", "", "", NullConfig),
      Env("", "", "https://llm.example/v1", "sk-custom-env", NullConfig) }
\* what StorageManager.loadAPIConfig() can return: null, or a saved APIConfig
SavedConfigs == {NullConfig, Config("openai", "sk-saved", ""), Config("claude", "", "")}
\* what the Settings form can hold
FormConfigs == {Config("claude", "sk-form", ""), Config("claude", "", "")}

InitApi ==
    /\ \E e \in ApiEnvKeys, saved \in SavedConfigs : apiEnv = [e EXCEPT !.saved = saved]
    /\ apiClient = InitializeFromEnv(apiEnv)
    /\ apiHook = Hook(HookInitialConfig, FALSE, FALSE, FALSE)
    /\ calls = << >>
    /\ ev = Event("load", 0, 0, Null, FALSE, 0)
    /\ events = 0
    /\ filterStrength = 0
    /\ searchQuery = << >>
    /\ isDark = FALSE
    /\ canvasState = InitCanvasState
    /\ rendered = InitCanvasState
    /\ hoveredNode = Null
    /\ nodes = << >>
    /\ renderedNodes = << >>
    /\ selectedNode = Null
    /\ panRun = NoRun
    /\ pending = 0
    /\ alpha = BaseAlpha
    /\ connections = << >>
    /\ ticks = 0
    /\ simCall = Null
    /\ rafCallbacks = {}
    /\ nextRafId = 1
    /\ effect = NoEffect
    /\ tornDown = {}
    /\ frameLog = << >>
    /\ frames = 0

apiIdle == <<canvasState, rendered, hoveredNode, nodes, renderedNodes, selectedNode,
             panRun, pending, simVars, loopVars, filterStrength, searchQuery, isDark>>

\* useAPIConfig mounts: the first effect loads the saved configuration and
\* sets the state to it, the second pushes the state of this render
MountHook ==
    /\ ~apiHook.mounted
    /\ apiClient' = SetConfig(apiClient, apiHook.apiConfig, apiHook.useCustomAPI)
    /\ apiHook' = IF apiEnv.saved # NullConfig
                  THEN Hook(apiEnv.saved, apiEnv.saved.apiKey # "", TRUE,
                            /\ apiEnv.saved = apiHook.apiConfig
                            /\ (apiEnv.saved.apiKey # "") = apiHook.useCustomAPI)
                  ELSE Hook(apiHook.apiConfig, apiHook.useCustomAPI, TRUE, TRUE)
    /\ ev' = Event("mount", 0, 0, Null, FALSE, 0)
    /\ UNCHANGED <<apiEnv, calls, events, apiIdle>>

\* the render after the state changed: the second effect pushes the state
PushConfig ==
    /\ apiHook.mounted /\ ~apiHook.pushed
    /\ apiClient' = SetConfig(apiClient, apiHook.apiConfig, apiHook.useCustomAPI)
    /\ apiHook' = [apiHook EXCEPT !.pushed = TRUE]
    /\ ev' = Event("effect", 0, 0, Null, FALSE, 0)
    /\ UNCHANGED <<apiEnv, calls, events, apiIdle>>

\* updateConfig(newConfig) from the Settings form, rendered before the next event
UpdateConfig ==
    /\ apiHook.mounted /\ apiHook.pushed
    /\ events < MaxApiEvents
    /\ \E c \in FormConfigs :
          /\ c # apiHook.apiConfig
          /\ apiHook' = [apiHook EXCEPT !.apiConfig = c]
          /\ apiClient' = SetConfig(apiClient, c, apiHook.useCustomAPI)
    /\ events' = events + 1
    /\ ev' = Event("updateConfig", 0, 0, Null, FALSE, 0)
    /\ UNCHANGED <<apiEnv, calls, apiIdle>>

\* toggleCustomAPI(enabled) from the Settings panel, rendered before the next event
ToggleCustomAPI ==
    /\ apiHook.mounted /\ apiHook.pushed
    /\ events < MaxApiEvents
    /\ apiHook' = [apiHook EXCEPT !.useCustomAPI = ~@]
    /\ apiClient' = SetConfig(apiClient, apiHook.apiConfig, ~apiHook.useCustomAPI)
    /\ events' = events + 1
    /\ ev' = Event("toggleCustomAPI", 0, 0, Null, FALSE, 0)
    /\ UNCHANGED <<apiEnv, calls, apiIdle>>

\* saveConfig(): StorageManager.saveAPIConfig(apiConfig)
SaveConfig ==
    /\ apiHook.mounted /\ apiHook.pushed
    /\ events < MaxApiEvents
    /\ apiEnv' = [apiEnv EXCEPT !.saved = apiHook.apiConfig]
    /\ events' = events + 1
    /\ ev' = Event("saveConfig", 0, 0, Null, FALSE, 0)
    /\ UNCHANGED <<apiClient, apiHook, calls, apiIdle>>

\* the application extracts concepts or looks for connections; the request
\* to the provider, if one is made, succeeds or fails
CallClient ==
    /\ apiHook.mounted /\ apiHook.pushed
    /\ events < MaxApiEvents
    /\ \E ok \in BOOLEAN :
          LET call == ClientCall(apiClient, ok)
          IN  /\ apiClient' = call.client
              /\ calls' = calls \o call.reached
    /\ events' = events + 1
    /\ ev' = Event("extractConcepts", 0, 0, Null, FALSE, 0)
    /\ UNCHANGED <<apiEnv, apiHook, apiIdle>>

NextApi ==
    MountHook \/ PushConfig \/ UpdateConfig \/ ToggleCustomAPI \/ SaveConfig \/ CallClient

SpecApi == InitApi /\ [][NextApi]_vars

\* the provider and key the environment names, as initializeFromEnv reads it
EnvProvider == IF apiEnv.anthropicKey # "" THEN "claude" ELSE "openai"
EnvKey == IF apiEnv.anthropicKey # "" THEN apiEnv.anthropicKey ELSE apiEnv.openaiKey

\* C30: with VITE_ANTHROPIC_API_KEY or VITE_OPENAI_API_KEY in the environment,
\* nothing saved and nothing entered in the Settings panel, and no request to
\* the provider having failed, the client is not in mock mode and every call
\* made has reached the provider of the environment with its key and not the
\* mock client, before and after useAPIConfig has mounted
C30EnvKeyUsed ==
    ( /\ EnvKey # ""
      /\ apiEnv.saved = NullConfig
      /\ apiHook.apiConfig = HookInitialConfig /\ ~apiHook.useCustomAPI
      /\ \A k \in 1..Len(calls) : calls[k].ok )
    => /\ ~apiClient.isMockMode
       /\ \A k \in 1..Len(calls) :
             /\ calls[k].target # "mock"
             /\ calls[k].provider = EnvProvider
             /\ calls[k].apiKey = EnvKey

\* the step is a call of the client
ClientCalled == ev'.type = "extractConcepts" /\ events' = events + 1
\* what the call of the step reached
Reached == SubSeq(calls', Len(calls) + 1, Len(calls'))

\* C31: a call that fails (no usable configuration, or a request the
\* provider does not answer) is answered by the mock client and leaves the
\* client in mock mode; a call made in mock mode reaches the mock client only
\* and stays in mock mode; and mock mode ends only when setConfig is given
\* useCustom true and a key that is not empty
C31FailureFallsBackToMock ==
    [][/\ ClientCalled =>
             /\ Len(Reached) >= 1
             /\ Reached[Len(Reached)].target = "mock" => apiClient'.isMockMode
             /\ (\E k \in 1..Len(Reached) : ~Reached[k].ok) => apiClient'.isMockMode
             /\ apiClient.isMockMode =>
                    /\ Reached = <<ApiCall("mock", Null, "", TRUE)>>
                    /\ apiClient'.isMockMode
       /\ (apiClient.isMockMode /\ ~apiClient'.isMockMode) =>
             /\ ev'.type \in {"mount", "effect", "updateConfig", "toggleCustomAPI"}
             /\ apiClient'.useCustomAPI
             /\ apiClient'.config.apiKey # ""]_vars

\* a request to the provider failed, the next call was served by the mock
\* client, and a later setConfig with a key has ended mock mode
C31Witness ==
    /\ Len(calls) = 3
    /\ calls[1].target # "mock" /\ ~calls[1].ok
    /\ calls[2].target = "mock" /\ calls[3].target = "mock"
    /\ ev.type = "updateConfig"
    /\ ~apiClient.isMockMode

----------------------------------------------------------------------------
(* The energy of the simulation under any interleaving of simulate ticks   *)
(* and initializeNodePositions calls, on a graph of one node at rest at    *)
(* the origin.  ticks and events count the calls up to MaxTicks and        *)
(* MaxSimUpdates; the energy itself has finitely many values.              *)

InitAlpha ==
    /\ nodes = << Node("a", 0, 0, 0, 0) >>
    /\ connections = << >>
    /\ alpha = BaseAlpha
    /\ ticks = 0
    /\ simCall = Null
    /\ events = 0
    /\ canvasState = InitCanvasState
    /\ rendered = InitCanvasState
    /\ hoveredNode = Null
    /\ renderedNodes = nodes
    /\ selectedNode = Null
    /\ calls = << >>
    /\ ev = Event("mount", 0, 0, Null, FALSE, 0)
    /\ panRun = NoRun
    /\ pending = 0
    /\ rafCallbacks = {}
    /\ nextRafId = 1
    /\ effect = NoEffect
    /\ tornDown = {}
    /\ frameLog = << >>
    /\ frames = 0
    /\ HostIdle

\* graphSimulation.simulate(nodes, connections, undefined)
AlphaTick ==
    /\ Representable(nodes)
    /\ nodes' = SimulateNodes(nodes, connections, alpha, Null)
    /\ alpha' = CoolAlpha(alpha)
    /\ ticks' = Min(ticks + 1, MaxTicks)
    /\ simCall' = Null
    /\ ev' = Event("simulate", 0, 0, Null, FALSE, 0)
    /\ UNCHANGED <<canvasState, rendered, hoveredNode, renderedNodes, selectedNode,
                   calls, panRun, pending, events, connections, loopVars, hostVars>>

\* graphSimulation.initializeNodePositions(nodes, width, height)
AlphaEnergize ==
    /\ \E draws \in [1..Len(nodes) -> [x : RandomDraws, y : RandomDraws]] :
          nodes' = InitializeNodePositions(nodes, canvasState.canvasSize.width,
                                           canvasState.canvasSize.height, draws)
    /\ alpha' = Energize(alpha, AQ \div 10)
    /\ events' = Min(events + 1, MaxSimUpdates)
    /\ ev' = Event("initializeNodePositions", 0, 0, Null, FALSE, 0)
    /\ UNCHANGED <<canvasState, rendered, hoveredNode, renderedNodes, selectedNode,
                   calls, panRun, pending, connections, ticks, simCall, loopVars,
                   hostVars>>

NextAlpha == AlphaTick \/ AlphaEnergize

SpecAlpha == InitAlpha /\ [][NextAlpha]_vars

\* C32: whatever simulate ticks and initializeNodePositions calls have run,
\* in whatever order, alpha is within [minAlpha, baseAlpha]
C32AlphaWithinBounds == MinAlpha <= alpha /\ alpha <= BaseAlpha

\* ticks have cooled alpha down to minAlpha after the simulation was energized
C32Witness ==
    /\ alpha = MinAlpha
    /\ events >= 1
    /\ ev.type = "simulate"

----------------------------------------------------------------------------
(* The initialization effect of GraphCanvas over a graph whose nodes all   *)
(* have positions: the host replaces graph.nodes on a position update, the *)
(* window is resized, React commits and runs the effect, the loop ticks.   *)
(* pending = 1 while a replaced node array waits for its commit.           *)

MaxEnergizeTicks == 85
MaxHostEvents == 1

\* initializeNodePositions energizing only if it placed a node
InitializeAlphaIfPlaced(ns, a) ==
    IF \E i \in 1..Len(ns) : ns[i].x = Undefined \/ ns[i].y = Undefined
    THEN Energize(a, AQ \div 10)
    ELSE a

\* initializeNodePositions: alpha after it, this.energize(0.1) being its
\* last statement
InitializeAlpha(ns, a) == Energize(a, AQ \div 10)

\* the draws of a call that places no node
NoDraws(ns) == [i \in 1..Len(ns) |-> [x |-> 0, y |-> 0]]

InitEnergize ==
    /\ nodes = << Node("a", 0, 0, 0, 0) >>
    /\ renderedNodes = nodes
    /\ connections = << >>
    /\ \E size \in Sizes : canvasState = [InitCanvasState EXCEPT !.canvasSize = size]
    /\ rendered = canvasState
    /\ alpha = BaseAlpha
    /\ ticks = 0
    /\ simCall = Null
    /\ events = 0
    /\ pending = 0
    /\ hoveredNode = Null
    /\ selectedNode = Null
    /\ calls = << >>
    /\ ev = Event("mount", 0, 0, Null, FALSE, 0)
    /\ panRun = NoRun
    /\ rafCallbacks = {}
    /\ nextRafId = 1
    /\ effect = NoEffect
    /\ tornDown = {}
    /\ frameLog = << >>
    /\ frames = 0
    /\ HostIdle

\* updateNodePosition(nodeId, x, y) called by a pointer move of a drag
\* (continuous event): graph.nodes is replaced and waits for its commit
EnergizePositionUpdate ==
    /\ events < MaxHostEvents
    /\ \E i \in 1..Len(nodes), t \in DragTargets :
          /\ nodes' = UpdateNodePosition(nodes, nodes[i].id, t.x, t.y)
          /\ ev' = Event("updateNodePosition", t.x, t.y, nodes[i].id, FALSE, 0)
    /\ pending' = 1
    /\ events' = events + 1
    /\ UNCHANGED <<canvasState, rendered, hoveredNode, renderedNodes, selectedNode,
                   calls, panRun, simVars, loopVars, hostVars>>

\* the initialization effect of a commit: it runs if graph.nodes was
\* replaced or the surface size differs from the one of the last commit,
\* and calls initializeNodePositions if there is a node; ev.x records the
\* alpha the call read, ev.mod whether the effect ran
InitEffect(size, type) ==
    LET runs == pending = 1 \/ size # rendered.canvasSize
        called == runs /\ Len(nodes) > 0
    IN  /\ nodes' = IF called
                    THEN InitializeNodePositions(nodes, size.width, size.height,
                                                 NoDraws(nodes))
                    ELSE nodes
        /\ renderedNodes' = nodes'
        /\ alpha' = IF called THEN InitializeAlpha(nodes, alpha) ELSE alpha
        /\ pending' = 0
        /\ ev' = Event(type, alpha, 0, Null, called, 0)

\* React commits the render of the replaced node array
EnergizeCommit ==
    /\ pending = 1
    /\ InitEffect(canvasState.canvasSize, "commit")
    /\ rendered' = canvasState
    /\ UNCHANGED <<canvasState, hoveredNode, selectedNode, calls, panRun, events,
                   connections, ticks, simCall, loopVars, hostVars>>

\* updateCanvasSize on a window resize (discrete event): its update is
\* committed with whatever else is pending
EnergizeResize ==
    /\ events < MaxHostEvents
    /\ \E size \in Sizes :
          /\ canvasState' = CanvasSizeUpdate(canvasState, size)
          /\ InitEffect(size, "resize")
    /\ rendered' = canvasState'
    /\ events' = events + 1
    /\ UNCHANGED <<hoveredNode, selectedNode, calls, panRun, connections, ticks,
                   simCall, loopVars, hostVars>>

\* animate of the mounted loop: a simulate tick on the array of its commit
EnergizeTick ==
    /\ ticks < MaxEnergizeTicks
    /\ Representable(renderedNodes)
    /\ renderedNodes' = SimulateNodes(renderedNodes, connections, alpha,
                                      rendered.draggedNode)
    /\ nodes' = IF pending = 0 THEN renderedNodes' ELSE nodes
    /\ alpha' = CoolAlpha(alpha)
    /\ ticks' = ticks + 1
    /\ simCall' = rendered.draggedNode
    /\ ev' = Event("animate", 0, 0, Null, FALSE, 0)
    /\ UNCHANGED <<canvasState, rendered, hoveredNode, selectedNode, calls, panRun,
                   pending, events, connections, loopVars, hostVars>>

NextEnergize == EnergizePositionUpdate \/ EnergizeCommit \/ EnergizeResize \/ EnergizeTick

SpecEnergize == InitEnergize /\ [][NextEnergize]_vars

----------------------------------------------------------------------------
(* Coincident nodes: two nodes at one position with one velocity, a third  *)
(* node elsewhere, and the connections among them.                         *)

\* a and b coincident, c elsewhere, in the orders the array can hold them
CoincidentNodeSets ==
    { << Node("a", 10 * Q, 10 * Q, VQ, 0), Node("b", 10 * Q, 10 * Q, VQ, 0),
         Node("c", -30 * Q, 40 * Q, 0, 0) >>,
      << Node("a", 0, 0, 0, 0), Node("c", 50 * Q, 0, 0, 0), Node("b", 0, 0, 0, 0) >>,
      << Node("c", 10 * Q, 10 * Q, 0, 0), Node("a", 10 * Q, 10 * Q, 0, 0),
         Node("b", 10 * Q, 10 * Q, 0, 0) >> }
CoincidentConnectionSets ==
    { << >>,
      << Conn("a", "b", (80 * SQ) \div 100) >>,
      << Conn("a", "c", (50 * SQ) \div 100) >>,
      << Conn("c", "b", SQ), Conn("a", "z", SQ) >> }

InitCoincide ==
    /\ nodes \in CoincidentNodeSets
    /\ connections \in CoincidentConnectionSets
    /\ alpha = BaseAlpha
    /\ ticks = 0
    /\ simCall = Null
    /\ events = 0
    /\ canvasState = InitCanvasState
    /\ rendered = InitCanvasState
    /\ hoveredNode = Null
    /\ renderedNodes = nodes
    /\ selectedNode = Null
    /\ calls = << >>
    /\ ev = Event("mount", 0, 0, Null, FALSE, 0)
    /\ panRun = NoRun
    /\ pending = 0
    /\ rafCallbacks = {}
    /\ nextRafId = 1
    /\ effect = NoEffect
    /\ tornDown = {}
    /\ frameLog = << >>
    /\ frames = 0
    /\ HostIdle

NextCoincide == SimulateTick

SpecCoincide == InitCoincide /\ [][NextCoincide]_vars

SameMotion(n, m) == n.x = m.x /\ n.y = m.y /\ n.vx = m.vx /\ n.vy = m.vy

\* connection c joins node i or node j of ns to a node at another position
PullsApart(ns, c, i, j) ==
    \E k, l \in 1..Len(ns) :
       /\ {ns[k].id, ns[l].id} = {c.source, c.target}
       /\ k \in {i, j}
       /\ ns[l].x # ns[k].x \/ ns[l].y # ns[k].y

\* C37 as claimed: two nodes at one position with one velocity, neither of
\* them pinned, are at one position with one velocity after a tick, whatever
\* the other nodes and the connections
C37StayCoincident ==
    [][(ticks' = ticks + 1) =>
          \A i, j \in 1..Len(nodes) :
             (/\ i # j
              /\ SameMotion(nodes[i], nodes[j])
              /\ nodes[i].id # simCall' /\ nodes[j].id # simCall')
                => SameMotion(nodes'[i], nodes'[j])]_vars

\* C37 as amended: two nodes at one position with one velocity, neither of
\* them pinned and neither joined by a connection to a node at another
\* position, are at one position with one velocity after a tick, whatever
\* the other nodes
C37StayCoincidentUnlessPulled ==
    [][(ticks' = ticks + 1) =>
          \A i, j \in 1..Len(nodes) :
             (/\ i # j
              /\ SameMotion(nodes[i], nodes[j])
              /\ nodes[i].id # simCall' /\ nodes[j].id # simCall'
              /\ \A k \in 1..Len(connections) :
                    ~PullsApart(nodes, connections[k], i, j))
                => SameMotion(nodes'[i], nodes'[j])]_vars

\* two ticks have moved a and b, joined to each other only, away from where
\* they started under the repulsion of c, and they are still at one position
\* with one velocity
C37Witness ==
    /\ ticks = 2
    /\ simCall = Null
    /\ connections = << Conn("a", "b", (80 * SQ) \div 100) >>
    /\ nodes[1].id = "a" /\ nodes[2].id = "b"
    /\ nodes[1].x # 10 * Q
    /\ nodes[1].vy # 0
    /\ SameMotion(nodes[1], nodes[2])
    /\ ~SameMotion(nodes[1], nodes[3])

----------------------------------------------------------------------------
(* useKnowledgeGraph: the graph the host holds.  nodes and connections are *)
(* graph.nodes and graph.connections, selectedNode the id of the selected  *)
(* node, calls the calls of addContent that wait for the provider, each    *)
(* with the graph.nodes its closure holds.                                 *)

MaxAdds == 2

Ids(ns) == {ns[i].id : i \in 1..Len(ns)}

\* the ids generateId() gives the nodes of the call-th call of addContent
NewId(call, k) ==
    CASE call = 1 /\ k = 1 -> "n1" [] call = 1 /\ k = 2 -> "n2"
      [] call = 2 /\ k = 1 -> "n3" [] call = 2 /\ k = 2 -> "n4"
      [] call = 3 /\ k = 1 -> "n5" [] OTHER -> "n6"

\* node.label: the first concept of a call is Cat, the second Dog
Label(id) ==
    IF id \in {"n1", "n3", "n5"} THEN <<"C", "a", "t">>
    ELSE IF id \in {"n2", "n4", "n6"} THEN <<"D", "o", "g">>
    ELSE NodeLabel(id)

\* the numbers of concepts extractConcepts can resolve with
ConceptCounts == {1, 2}

Suggestion(first, second, strength) ==
    [first |-> first, second |-> second, strength |-> strength]
\* what findConnections can resolve with (existing, new, strength); a
\* missing name is the empty string, a missing strength Undefined
ConnectionSuggestionSets ==
    { << >>,
      << Suggestion(<<"a", "i">>, <<"C", "a">>, (80 * SQ) \div 100) >>,
      << Suggestion(<< >>, <<"d", "o", "g">>, Undefined) >>,
      << Suggestion(<<"b">>, <<"x">>, 0) >> }
\* what findInternalConnections can resolve with (concept1, concept2, strength)
InternalSuggestionSets ==
    { << >>,
      << Suggestion(<<"c", "a", "t">>, <<"D", "o", "g">>, 0) >>,
      << Suggestion(<< >>, <<"a">>, (50 * SQ) \div 100) >> }

\* ns.find(n => n.label.toLowerCase().includes(name.toLowerCase())): the
\* index of the node found, 0 if there is none
FindByLabel(ns, name) ==
    LET found == {i \in 1..Len(ns) :
                     Includes(ToLowerCase(Label(ns[i].id)), ToLowerCase(name))}
    IN  IF found = {} THEN 0 ELSE CHOOSE i \in found : \A j \in found : i <= j

\* Math.max(conn.strength ?? 0.1, 0.1)
SuggestedStrength(strength) ==
    Max(IF strength = Undefined THEN SQ \div 10 ELSE strength, SQ \div 10)

\* the connections.forEach of addContent: a connection for every suggestion
\* whose two nodes are found
RECURSIVE SuggestedConnections(_, _, _, _)
SuggestedConnections(suggestions, sources, targets, internal) ==
    IF suggestions = << >> THEN << >>
    ELSE LET s == Head(suggestions)
             i == FindByLabel(sources, s.first)
             j == FindByLabel(targets, s.second)
             made == IF i # 0 /\ j # 0 /\ (internal => sources[i].id # targets[j].id)
                     THEN << Conn(sources[i].id, targets[j].id,
                                  SuggestedStrength(s.strength)) >>
                     ELSE << >>
         IN  made \o SuggestedConnections(Tail(suggestions), sources, targets, internal)

\* the functional update of deleteNode
DeleteNodeUpdate(g, nodeId) ==
    [nodes |-> SelectSeq(g.nodes, LAMBDA n : n.id # nodeId),
     connections |-> SelectSeq(g.connections,
                               LAMBDA c : c.source # nodeId /\ c.target # nodeId)]

Waiting(call, closure, stage, newNodes, newConnections) ==
    [call |-> call, closure |-> closure, stage |-> stage, newNodes |-> newNodes,
     newConnections |-> newConnections]

Without(seq, i) == SubSeq(seq, 1, i - 1) \o SubSeq(seq, i + 1, Len(seq))

InitGraph ==
    /\ \/ nodes = << >> /\ connections = << >>
       \/ nodes = << Node("a", 0, 0, 0, 0) >> /\ connections = << >>
       \/ /\ nodes = InitNodes
          /\ connections = << Conn("a", "b", (80 * SQ) \div 100) >>
    /\ renderedNodes = nodes
    /\ alpha = BaseAlpha
    /\ ticks = 0
    /\ simCall = Null
    /\ events = 0
    /\ canvasState = InitCanvasState
    /\ rendered = InitCanvasState
    /\ hoveredNode = Null
    /\ selectedNode = Null
    /\ calls = << >>
    /\ ev = Event("mount", 0, 0, Null, FALSE, 0)
    /\ panRun = NoRun
    /\ pending = 0
    /\ rafCallbacks = {}
    /\ nextRafId = 1
    /\ effect = NoEffect
    /\ tornDown = {}
    /\ frameLog = << >>
    /\ frames = 0
    /\ HostIdle

graphIdle == <<canvasState, rendered, hoveredNode, renderedNodes, panRun, pending,
               alpha, ticks, simCall, loopVars, filterStrength, searchQuery, isDark,
               apiClient, apiHook>>

\* addContent up to its first await
AddContent ==
    /\ events < MaxAdds
    /\ calls' = Append(calls, Waiting(events + 1, nodes, "extractConcepts", << >>, << >>))
    /\ events' = events + 1
    /\ ev' = Event("addContent", 0, 0, Null, FALSE, 0)
    /\ UNCHANGED <<nodes, connections, selectedNode, apiEnv, graphIdle>>

\* the end of addContent: setGraph(prev => ...) appends the new nodes and
\* connections to the graph as it is now
SetGraphAppend(i, w) ==
    /\ nodes' = nodes \o w.newNodes
    /\ connections' = connections \o w.newConnections
    /\ calls' = Without(calls, i)

\* addContent from an await to the next one or to its end
Continue(i, w) ==
    IF w.stage = "done" THEN SetGraphAppend(i, w)
    ELSE calls' = [calls EXCEPT ![i] = w] /\ UNCHANGED <<nodes, connections>>

\* extractConcepts resolves: the new nodes are created
ExtractConceptsResolved ==
    /\ \E i \in 1..Len(calls), count \in ConceptCounts, draw \in RandomDraws :
          /\ calls[i].stage = "extractConcepts"
          /\ LET w == calls[i]
                 newNodes == [k \in 1..count |->
                                 Node(NewId(w.call, k), RandomWithin(draw, 800),
                                      RandomWithin(draw, 600), 0, 0)]
                 stage == IF Len(w.closure) > 0 THEN "findConnections"
                          ELSE IF count > 1 THEN "findInternalConnections"
                          ELSE "done"
             IN  Continue(i, Waiting(w.call, w.closure, stage, newNodes, << >>))
    /\ ev' = Event("extractConcepts", 0, 0, Null, FALSE, 0)
    /\ UNCHANGED <<selectedNode, events, apiEnv, graphIdle>>

\* findConnections resolves: connections from nodes of the closure's
\* graph.nodes to the new nodes
FindConnectionsResolved ==
    /\ \E i \in 1..Len(calls), suggestions \in ConnectionSuggestionSets :
          /\ calls[i].stage = "findConnections"
          /\ LET w == calls[i]
                 made == SuggestedConnections(suggestions, w.closure, w.newNodes, FALSE)
                 stage == IF Len(w.newNodes) > 1 THEN "findInternalConnections"
                          ELSE "done"
             IN  Continue(i, Waiting(w.call, w.closure, stage, w.newNodes, made))
    /\ ev' = Event("findConnections", 0, 0, Null, FALSE, 0)
    /\ UNCHANGED <<selectedNode, events, apiEnv, graphIdle>>

\* findInternalConnections resolves: connections among the new nodes
FindInternalConnectionsResolved ==
    /\ \E i \in 1..Len(calls), suggestions \in InternalSuggestionSets :
          /\ calls[i].stage = "findInternalConnections"
          /\ LET w == calls[i]
                 made == SuggestedConnections(suggestions, w.newNodes, w.newNodes, TRUE)
             IN  Continue(i, Waiting(w.call, w.closure, "done", w.newNodes,
                                     w.newConnections \o made))
    /\ ev' = Event("findInternalConnections", 0, 0, Null, FALSE, 0)
    /\ UNCHANGED <<selectedNode, events, apiEnv, graphIdle>>

\* setSelectedNode(node) by a pointer-down on the surface
SelectNode ==
    /\ \E n \in Ids(nodes) \cup {Null} : n # selectedNode /\ selectedNode' = n
    /\ ev' = Event("onNodeSelect", 0, 0, selectedNode', FALSE, 0)
    /\ UNCHANGED <<nodes, connections, calls, events, apiEnv, graphIdle>>

\* deleteNode(nodeId); ev.hit records nodeId
DeleteNode ==
    /\ \E nodeId \in Ids(nodes) :
          LET g == DeleteNodeUpdate([nodes |-> nodes, connections |-> connections], nodeId)
          IN  /\ nodes' = g.nodes
              /\ connections' = g.connections
              /\ selectedNode' = IF selectedNode = nodeId THEN Null ELSE selectedNode
              /\ ev' = Event("deleteNode", 0, 0, nodeId, selectedNode = nodeId, 0)
    /\ UNCHANGED <<calls, events, apiEnv, graphIdle>>

\* clearGraph
ClearGraph ==
    /\ Len(nodes) > 0
    /\ nodes' = << >>
    /\ connections' = << >>
    /\ selectedNode' = Null
    /\ apiEnv' = [apiEnv EXCEPT !.saved = NullConfig]
    /\ ev' = Event("clearGraph", 0, 0, Null, FALSE, 0)
    /\ UNCHANGED <<calls, events, graphIdle>>

NextGraph ==
    \/ AddContent
    \/ ExtractConceptsResolved
    \/ FindConnectionsResolved
    \/ FindInternalConnectionsResolved
    \/ SelectNode
    \/ DeleteNode
    \/ ClearGraph

SpecGraph == InitGraph /\ [][NextGraph]_vars

\* C38: the source and the target of every connection are ids of nodes of
\* the graph, and after deleteNode the node is not in the graph, no
\* connection names it and it is not selected
C38ReferentialIntegrity ==
    /\ \A k \in 1..Len(connections) :
          connections[k].source \in Ids(nodes) /\ connections[k].target \in Ids(nodes)
    /\ ev.type = "deleteNode" =>
          /\ ev.hit \notin Ids(nodes)
          /\ \A k \in 1..Len(connections) :
                connections[k].source # ev.hit /\ connections[k].target # ev.hit
          /\ selectedNode # ev.hit

----------------------------------------------------------------------------
(* updateNodePosition over graphs with moving nodes and connections, for   *)
(* ids of the graph and for an id no node has.                             *)

MaxPositionUpdates == 2

InitUpdate ==
    /\ nodes \in SimNodeSets
    /\ connections \in SimConnectionSets
    /\ renderedNodes = nodes
    /\ alpha = BaseAlpha
    /\ ticks = 0
    /\ simCall = Null
    /\ events = 0
    /\ canvasState = InitCanvasState
    /\ rendered = InitCanvasState
    /\ hoveredNode = Null
    /\ selectedNode = Null
    /\ calls = << >>
    /\ ev = Event("mount", 0, 0, Null, FALSE, 0)
    /\ panRun = NoRun
    /\ pending = 0
    /\ rafCallbacks = {}
    /\ nextRafId = 1
    /\ effect = NoEffect
    /\ tornDown = {}
    /\ frameLog = << >>
    /\ frames = 0
    /\ HostIdle

\* updateNodePosition(nodeId, x, y): the functional update keeps the rest of
\* the graph; ev records the arguments
HostPositionUpdate ==
    /\ events < MaxPositionUpdates
    /\ \E nodeId \in {"a", "b", "c", "z"}, t \in DragTargets :
          /\ nodes' = UpdateNodePosition(nodes, nodeId, t.x, t.y)
          /\ ev' = Event("updateNodePosition", t.x, t.y, nodeId, FALSE, 0)
    /\ events' = events + 1
    /\ UNCHANGED <<canvasState, rendered, hoveredNode, renderedNodes, selectedNode,
                   calls, panRun, pending, simVars, loopVars, hostVars>>

NextUpdate == HostPositionUpdate

SpecUpdate == InitUpdate /\ [][NextUpdate]_vars

\* C40: updateNodePosition(id, x, y) puts the node with that id at (x, y)
\* with velocity (0, 0) and leaves the other nodes, the order of the nodes
\* and the connections as they are; if no node has the id the nodes are as
\* they were
C40UpdatesOnlyAddressed ==
    [][(events' = events + 1) =>
          /\ Len(nodes') = Len(nodes)
          /\ \A i \in 1..Len(nodes) :
                IF nodes[i].id = ev'.hit
                THEN nodes'[i] = Node(nodes[i].id, ev'.x, ev'.y, 0, 0)
                ELSE nodes'[i] = nodes[i]
          /\ connections' = connections
          /\ (\A i \in 1..Len(nodes) : nodes[i].id # ev'.hit) => nodes' = nodes]_vars

\* an update has put the moving node b at the target at rest and left a
\* and the connection, and an update for an id no node has has followed
C40Witness ==
    /\ events = 2
    /\ ev.type = "updateNodePosition"
    /\ ev.hit = "z"
    /\ nodes = << Node("a", -100 * Q, 0, 0, 0), Node("b", 5 * Q, -5 * Q, 0, 0) >>
    /\ Len(connections) > 0

====
